---- MODULE Spec2Model ----
(***************************************************************************)
(* Retrieval & ranking engine of technical-docs-ai: rank fusion            *)
(* (SearchFusion), the keyword index and the hybrid search front           *)
(* (KeywordSearch, HybridSearch), the re-rankers (MMRReranker,             *)
(* RelevanceReranker) and the prompt builder (PromptBuilder).              *)
(*                                                                         *)
(* JavaScript numbers are modelled as exact rationals [n, d] in lowest     *)
(* terms with d > 0, so that equal values are equal records.  Texts are    *)
(* sequences of tokens; countTokens is the length of the token sequence.   *)
(***************************************************************************)
EXTENDS Integers, Sequences, FiniteSets, TLC

VARIABLES
    config,               \* SearchFusion.config  {k, vectorWeight, keywordWeight}
    fusionArgs,           \* the weights the SearchFusion constructor was given
    fuseCall,             \* arguments of the last fuseResults call, or NoCall
    fused,                \* value returned by the last fuseResults call
    documents,            \* KeywordSearch.documents
    tfidf,                \* KeywordSearch.tfidf: the texts added to the TfIdf
    keywordIndexCalled,   \* KeywordSearch.indexDocuments was called on the instance
    isKeywordIndexReady,  \* HybridSearch.isKeywordIndexReady
    indexCompleted,       \* number of HybridSearch.indexDocuments calls that returned
    lastSearch,           \* outcome of the last search call
    mmrCall,              \* lambda and arguments of the last MMRReranker.rerank call
    mmrOut,               \* value returned by the last MMRReranker.rerank call
    relCall,              \* arguments of the last RelevanceReranker.rerank call
    relOut,               \* value returned by the last RelevanceReranker.rerank call
    builder,              \* PromptBuilder {maxContextTokens, maxResultsInContext}
    promptCall,           \* arguments of the last buildPrompt call
    prompt,               \* value returned by the last buildPrompt call
    diversity,            \* DiversityReranker {similarityThreshold, sourceWeighting}
    divCall,              \* arguments of the last DiversityReranker.rerank call
    divOut,                \* value returned by the last DiversityReranker.rerank call
    reranker,             \* Reranker {strategy} and the settings of its three rerankers
    rerankCall,           \* arguments of the last Reranker.rerank or rerankPipeline call
    rerankOut,             \* value returned by that call
    qaCall,               \* entry point and arguments of the last question asked
    qaOut,                \* what that call returned or answered
    conversation,          \* messages the /api/qa handler stored
    hybridRun,             \* position, locals and event log of one running hybridSearchImpl call
    embedder,             \* EmbeddingsGenerator {maxRetries}
    embedRun,              \* position, locals and log of one running generateBatch call
    streamRun,             \* position, locals and delivered chunks of one generateStreamingResponse call
    requests,             \* position and outcome of each /api/qa request
    repository,           \* InMemoryConversationRepository.messages in insertion order
    savedSinceClear,       \* ids of the messages saved since the last clear
    batchSize,            \* EmbeddingsGenerator.batchSize
    genCall,              \* arguments of the last generateEmbeddings or embedChunks call
    genOut                \* what that call returned

fusionVars   == <<config, fusionArgs, fuseCall, fused>>
keywordVars  == <<documents, tfidf, keywordIndexCalled, isKeywordIndexReady,
                  indexCompleted, lastSearch>>
mmrVars      == <<mmrCall, mmrOut>>
relVars      == <<relCall, relOut>>
promptVars   == <<builder, promptCall, prompt>>
diversityVars == <<diversity, divCall, divOut>>
rerankerVars == <<reranker, rerankCall, rerankOut>>
qaVars == <<qaCall, qaOut, conversation>>
hybridVars == <<hybridRun>>
embedVars == <<embedder, embedRun>>
streamVars == <<streamRun>>
historyVars == <<requests, repository, savedSinceClear>>
generateVars == <<batchSize, genCall, genOut>>
vars == <<fusionVars, keywordVars, mmrVars, relVars, promptVars, diversityVars, rerankerVars, qaVars, hybridVars, embedVars, streamVars, historyVars, generateVars>>

\* What an operation of one component leaves alone: the other components
otherThanFusion  == <<keywordVars, mmrVars, relVars, promptVars, diversityVars, rerankerVars, qaVars, hybridVars, embedVars, streamVars, historyVars, generateVars>>
otherThanKeyword == <<fusionVars, mmrVars, relVars, promptVars, diversityVars, rerankerVars, qaVars, hybridVars, embedVars, streamVars, historyVars, generateVars>>
otherThanMmr     == <<fusionVars, keywordVars, relVars, promptVars, diversityVars, rerankerVars, qaVars, hybridVars, embedVars, streamVars, historyVars, generateVars>>
otherThanRel     == <<fusionVars, keywordVars, mmrVars, promptVars, diversityVars, rerankerVars, qaVars, hybridVars, embedVars, streamVars, historyVars, generateVars>>
otherThanPrompt  == <<fusionVars, keywordVars, mmrVars, relVars, diversityVars, rerankerVars, qaVars, hybridVars, embedVars, streamVars, historyVars, generateVars>>
otherThanDiversity == <<fusionVars, keywordVars, mmrVars, relVars, promptVars, rerankerVars, qaVars, hybridVars, embedVars, streamVars, historyVars, generateVars>>
otherThanReranker == <<fusionVars, keywordVars, mmrVars, relVars, promptVars, diversityVars, qaVars, hybridVars, embedVars, streamVars, historyVars, generateVars>>
otherThanQA == <<fusionVars, keywordVars, mmrVars, relVars, promptVars, diversityVars, rerankerVars, hybridVars, embedVars, streamVars, historyVars, generateVars>>
otherThanHybrid == <<fusionVars, keywordVars, mmrVars, relVars, promptVars, diversityVars, rerankerVars, qaVars, embedVars, streamVars, historyVars, generateVars>>
otherThanEmbed == <<fusionVars, keywordVars, mmrVars, relVars, promptVars, diversityVars, rerankerVars, qaVars, hybridVars, streamVars, historyVars, generateVars>>
otherThanStream == <<fusionVars, keywordVars, mmrVars, relVars, promptVars, diversityVars, rerankerVars, qaVars, hybridVars, embedVars, historyVars, generateVars>>
otherThanHistory == <<fusionVars, keywordVars, mmrVars, relVars, promptVars, diversityVars, rerankerVars, qaVars, hybridVars, embedVars, streamVars, generateVars>>
otherThanGenerate == <<fusionVars, keywordVars, mmrVars, relVars, promptVars, diversityVars, rerankerVars, qaVars, hybridVars, embedVars, streamVars, historyVars>>

NoCall == [called |-> FALSE]

(***************************************************************************)
(* Bounds of the model.                                                    *)
(***************************************************************************)
MaxLen    == 2   \* longest enumerated result list
MaxTopK   == 4   \* largest topK passed to an operation
MaxWeight == 1   \* configured weights range over 0/2 .. MaxWeight/2

(***************************************************************************)
(* Exact rational arithmetic standing for JavaScript number arithmetic.    *)
(***************************************************************************)
Abs(x) == IF x < 0 THEN -x ELSE x

Min(a, b) == IF a < b THEN a ELSE b

Max(a, b) == IF a > b THEN a ELSE b

RECURSIVE GCD(_, _)
GCD(a, b) == IF b = 0 THEN a ELSE GCD(b, a % b)

Rat(n, d) ==
    LET g == GCD(Abs(n), Abs(d))
        s == IF d < 0 THEN -1 ELSE 1
    IN  [n |-> (s * n) \div g, d |-> (s * d) \div g]

RatInt(i) == [n |-> i, d |-> 1]

\* Least common denominator of x and y, and their numerators over it
Lcd(x, y) == (x.d \div GCD(x.d, y.d)) * y.d

Over(x, l) == x.n * (l \div x.d)

RatAdd(x, y) == LET l == Lcd(x, y) IN Rat(Over(x, l) + Over(y, l), l)

RatSub(x, y) == LET l == Lcd(x, y) IN Rat(Over(x, l) - Over(y, l), l)

RatMul(x, y) ==
    LET a == Rat(x.n, y.d)
        b == Rat(y.n, x.d)
    IN  Rat(a.n * b.n, a.d * b.d)

RatDiv(x, y) == RatMul(x, Rat(y.d, y.n))

RatLT(x, y) == LET l == Lcd(x, y) IN Over(x, l) < Over(y, l)

RatLE(x, y) == LET l == Lcd(x, y) IN Over(x, l) <= Over(y, l)

(***************************************************************************)
(* Array helpers.                                                          *)
(***************************************************************************)
\* Array.prototype.slice(0, end): a negative end counts from the back.
Slice(s, end) ==
    LET e == IF end < 0 THEN Max(Len(s) + end, 0) ELSE Min(end, Len(s))
    IN  SubSeq(s, 1, e)

\* The value of a const binding: the element of a singleton set
TheOne(S) == CHOOSE x \in S : TRUE

\* All sequences over S of length at most n.
RECURSIVE SeqsUpTo(_, _)
SeqsUpTo(S, n) ==
    IF n = 0 THEN {<<>>}
    ELSE LET shorter == SeqsUpTo(S, n - 1)
         IN  shorter \cup {Append(s, x) : s \in {t \in shorter : Len(t) = n - 1}, x \in S}

IdsOf(s) == {s[i].id : i \in 1..Len(s)}

IdSeq(s) == [i \in 1..Len(s) |-> s[i].id]

(***************************************************************************)
(* SearchFusion                                                            *)
(***************************************************************************)
Ids == {"a", "b", "c"}

\* A retrieval result list over the given ids; the retriever's own score
\* decreases with the rank.
ResultList(ids) == [i \in 1..Len(ids) |-> [id |-> ids[i], score |-> Rat(1, i + 1)]]

ScenarioVector  == <<"a", "b", "c">>
ScenarioKeyword == <<"b", "d">>

\* Id lists without a repeated id, of length at most n
DistinctSeqs(S, n) == {s \in SeqsUpTo(S, n) : \A i, j \in 1..Len(s) : i # j => s[i] # s[j]}

\* Lists in which an id comes twice
RepeatingLists == {<<"a", "a">>, <<"a", "b", "a">>}

VectorLists ==
    {ResultList(s) : s \in DistinctSeqs(Ids, MaxLen) \cup RepeatingLists \cup {ScenarioVector}}

KeywordLists ==
    {ResultList(s) : s \in DistinctSeqs(Ids, MaxLen) \cup RepeatingLists \cup {ScenarioKeyword}}

WeightValues == {Rat(i, 2) : i \in 0..MaxWeight}

\* The weight pairs a SearchFusion is configured with: both >= 0, sum > 0.
WeightPairs ==
    {p \in WeightValues \X WeightValues : RatLT(RatInt(0), RatAdd(p[1], p[2]))}
        \cup {<<Rat(3, 5), Rat(2, 5)>>, <<Rat(7, 10), Rat(1, 2)>>, <<RatInt(2), RatInt(1)>>}

\* constructor(config): the weights are divided by their sum.
FusionNormalizeNoDivide(w, total) == w

FusionNormalize(w, total) == RatDiv(w, total)

SearchFusionNew(k, vectorWeight, keywordWeight) ==
    LET totalWeight == RatAdd(vectorWeight, keywordWeight)
    IN  [k |-> k,
         vectorWeight  |-> FusionNormalize(vectorWeight, totalWeight),
         keywordWeight |-> FusionNormalize(keywordWeight, totalWeight)]

\* weight / (k + rank + 1), rank 0-based
RrfScore(weight, k, rank) == RatDiv(weight, RatInt(k + rank + 1))

\* Position of id among the entries of the score map, 0 when absent.
RECURSIVE MapIndex(_, _, _)
MapIndex(m, id, i) ==
    IF i > Len(m) THEN 0
    ELSE IF m[i].id = id THEN i ELSE MapIndex(m, id, i + 1)

\* Map.set: a new key is appended, an existing key keeps its place and takes
\* the new value.
MapSet(m, id, entry) ==
    LET at == MapIndex(m, id, 1)
    IN  IF at = 0 THEN Append(m, entry) ELSE [m EXCEPT ![at] = entry]

\* vectorResults.forEach: every entry is set, overwriting an earlier one
RECURSIVE VectorPass(_, _, _, _)
VectorPass(m, vectorResults, cfg, i) ==
    IF i > Len(vectorResults) THEN m
    ELSE VectorPass(
            MapSet(m, vectorResults[i].id,
                   [id |-> vectorResults[i].id,
                    result |-> vectorResults[i],
                    rrfScore |-> RrfScore(cfg.vectorWeight, cfg.k, i - 1)]),
            vectorResults, cfg, i + 1)

KeywordCombineOverwrite(existing, rrfScore) == [existing EXCEPT !.rrfScore = rrfScore]

\* existing.rrfScore += rrfScore
KeywordCombine(existing, rrfScore) ==
    [existing EXCEPT !.rrfScore = RatAdd(existing.rrfScore, rrfScore)]

\* keywordResults.forEach: an existing entry is added to, a new one is set
RECURSIVE KeywordPass(_, _, _, _)
KeywordPass(m, keywordResults, cfg, i) ==
    IF i > Len(keywordResults) THEN m
    ELSE LET rrfScore == RrfScore(cfg.keywordWeight, cfg.k, i - 1)
             at == MapIndex(m, keywordResults[i].id, 1)
             next == IF at # 0
                     THEN [m EXCEPT ![at] = KeywordCombine(m[at], rrfScore)]
                     ELSE Append(m, [id |-> keywordResults[i].id,
                                     result |-> keywordResults[i],
                                     rrfScore |-> rrfScore])
         IN  KeywordPass(next, keywordResults, cfg, i + 1)

\* Array.prototype.sort with a comparator (a, b) => b.key - a.key: stable,
\* descending.  keys[i] is the key of element i; the result lists the
\* elements' indices in sorted order.  An index is inserted behind every
\* index whose key is not smaller.
RECURSIVE InsertDesc(_, _, _, _)
InsertDesc(keys, order, e, i) ==
    IF i > Len(order) THEN Append(order, e)
    ELSE IF RatLT(keys[order[i]], keys[e])
         THEN SubSeq(order, 1, i - 1) \o <<e>> \o SubSeq(order, i, Len(order))
         ELSE InsertDesc(keys, order, e, i + 1)

RECURSIVE SortOrderUpTo(_, _)
SortOrderUpTo(keys, i) ==
    IF i = 0 THEN <<>>
    ELSE InsertDesc(keys, SortOrderUpTo(keys, i - 1), i, 1)

SortOrderDesc(keys) == SortOrderUpTo(keys, Len(keys))

FuseSortedUnsorted(m) == m

\* .sort((a, b) => b.rrfScore - a.rrfScore)
FuseSorted(m) ==
    LET order == SortOrderDesc([i \in 1..Len(m) |-> m[i].rrfScore])
    IN  [i \in 1..Len(m) |-> m[order[i]]]

FuseTake(sorted, topK) == Slice(sorted, topK)

\* fuseResults(vectorResults, keywordResults, topK)
fuseResults(cfg, vectorResults, keywordResults, topK) ==
    LET scoreMap == KeywordPass(VectorPass(<<>>, vectorResults, cfg, 1),
                                keywordResults, cfg, 1)
        top == FuseTake(FuseSorted(scoreMap), topK)
    IN  [i \in 1..Len(top) |-> [id |-> top[i].id, score |-> top[i].rrfScore]]

\* new SearchFusion({vectorWeight, keywordWeight}), k left at its default
FusionInit ==
    /\ \E p \in WeightPairs :
          /\ config = SearchFusionNew(60, p[1], p[2])
          /\ fusionArgs = [vectorWeight |-> p[1], keywordWeight |-> p[2]]
    /\ fuseCall = NoCall
    /\ fused = <<>>

\* new SearchFusion(): both weights default to 0.5
FusionDefaultInit ==
    /\ config = SearchFusionNew(60, Rat(1, 2), Rat(1, 2))
    /\ fusionArgs = [vectorWeight |-> Rat(1, 2), keywordWeight |-> Rat(1, 2)]
    /\ fuseCall = NoCall
    /\ fused = <<>>

\* fusion.fuseResults(vectorResults, keywordResults, topK)
FuseResults ==
    \E v \in VectorLists, kw \in KeywordLists, topK \in 0..MaxTopK :
        /\ ~fuseCall.called
        /\ fuseCall' = [called |-> TRUE, vectorResults |-> v,
                        keywordResults |-> kw, topK |-> topK]
        /\ fused' = fuseResults(config, v, kw, topK)
        /\ UNCHANGED <<config, fusionArgs, otherThanFusion>>

(***************************************************************************)
(* KeywordSearch                                                           *)
(*                                                                         *)
(* A text is a sequence of words.  The TfIdf of the `natural` library is   *)
(* held as the list of texts added to it; its measure tf * idf is kept     *)
(* with idf(term) = (N + 1) / (1 + df(term)) in place of                   *)
(* 1 + ln(N / (1 + df(term))): both are positive and fall as df grows, so  *)
(* a document scores above 0 exactly when it holds a term of the query.    *)
(***************************************************************************)
NoText == <<>>

\* Chunks the index is built from.  metadata.title arrives through a cast
\* (`as string | undefined`), so a value that is no string can reach the
\* index: titleIsString = FALSE.
Chunk1 == [id |-> "d1", content |-> <<"react", "hooks">>, title |-> <<"Hooks">>,
           titleIsString |-> TRUE, heading |-> NoText,
           source |-> <<"hooks.md">>, chunkIndex |-> 0]

Chunk2 == [id |-> "d2", content |-> <<"state", "hooks", "hooks">>, title |-> NoText,
           titleIsString |-> TRUE, heading |-> <<"React", "State">>,
           source |-> <<"hooks.md">>, chunkIndex |-> 1]

Chunk3 == [id |-> "d3", content |-> <<"props">>, title |-> <<"42">>,
           titleIsString |-> FALSE, heading |-> NoText,
           source |-> <<"props.md">>, chunkIndex |-> 0]

Chunks == {Chunk1, Chunk2, Chunk3}

\* The corpora handed to indexDocuments: lists of distinct chunks.
Corpora == DistinctSeqs(Chunks, MaxLen)

Queries == {<<"hooks">>, <<"state", "react">>, <<"graphql">>}

\* String.prototype.toLowerCase on the words of the model
ToLowerWord(w) ==
    CASE w = "Hooks" -> "hooks"
      [] w = "React" -> "react"
      [] w = "State" -> "state"
      [] w = "HooksHooks" -> "hookshooks"
      [] w = "HooksHooksHooks" -> "hookshookshooks"
      [] w = "StateReact" -> "statereact"
      [] OTHER -> w

ToLowerCase(text) == [i \in 1..Len(text) |-> ToLowerWord(text[i])]

\* a + b for two strings: the last word of a and the first word of b become
\* one word, as no separator stands between them
StrConcat(a, b) ==
    IF Len(a) = 0 THEN b
    ELSE IF Len(b) = 0 THEN a
    ELSE SubSeq(a, 1, Len(a) - 1) \o <<a[Len(a)] \o b[1]>> \o SubSeq(b, 2, Len(b))

\* String.prototype.repeat(n)
RECURSIVE StrRepeat(_, _)
StrRepeat(text, n) == IF n = 0 THEN NoText ELSE StrConcat(StrRepeat(text, n - 1), text)

\* createSearchableText(doc); Throws when title.repeat is no function.
SearchableTextThrows(doc) == doc.title # NoText /\ ~doc.titleIsString

createSearchableText(doc) ==
    LET titlePart   == IF doc.title # NoText THEN StrRepeat(doc.title, 3) ELSE NoText
        headingPart == IF doc.heading # NoText THEN StrRepeat(doc.heading, 2) ELSE NoText
    IN  ToLowerCase(doc.content \o titlePart \o headingPart)

\* Number of leading documents the loop of indexDocuments adds before
\* createSearchableText throws; Len(docs) when none throws.
RECURSIVE AddedBeforeThrow(_, _)
AddedBeforeThrow(docs, i) ==
    IF i > Len(docs) THEN Len(docs)
    ELSE IF SearchableTextThrows(docs[i]) THEN i - 1
    ELSE AddedBeforeThrow(docs, i + 1)

IndexThrows(docs) == AddedBeforeThrow(docs, 1) < Len(docs)

\* The TfIdf after the loop of indexDocuments ended, normally or by a throw.
IndexedTexts(docs) ==
    [i \in 1..AddedBeforeThrow(docs, 1) |-> createSearchableText(docs[i])]

\* tf of a term in a text
RECURSIVE TermCount(_, _, _)
TermCount(term, text, i) ==
    IF i > Len(text) THEN 0
    ELSE (IF text[i] = term THEN 1 ELSE 0) + TermCount(term, text, i + 1)

DocsContaining(term, index) ==
    Cardinality({i \in 1..Len(index) : TermCount(term, index[i], 1) > 0})

Idf(term, index) == Rat(Len(index) + 1, 1 + DocsContaining(term, index))

\* TfIdf.tfidf(query, d): the sum over the query's terms of tf * idf
RECURSIVE TfidfOf(_, _, _, _)
TfidfOf(query, d, index, t) ==
    IF t > Len(query) THEN RatInt(0)
    ELSE RatAdd(RatMul(RatInt(TermCount(query[t], index[d], 1)), Idf(query[t], index)),
                TfidfOf(query, d, index, t + 1))

\* normalizeScore: 1 / (1 + exp(-score / 2)), kept as (score + 2) / (score + 4):
\* 1/2 at 0, rising, below 1.
normalizeScore(score) == RatDiv(RatAdd(score, RatInt(2)), RatAdd(score, RatInt(4)))

\* tfidfs callback: the documents with score > 0, in index order
RECURSIVE PositiveScores(_, _, _)
PositiveScores(query, index, d) ==
    IF d > Len(index) THEN <<>>
    ELSE LET score == TfidfOf(query, d, index, 1)
         IN  (IF RatLT(RatInt(0), score)
              THEN <<[index |-> d, score |-> score]>> ELSE <<>>)
             \o PositiveScores(query, index, d + 1)

EmptyIndexResultThrows == [outcome |-> "notIndexed", results |-> <<>>]

\* if (this.documents.length === 0) return [];
EmptyIndexResult == [outcome |-> "ok", results |-> <<>>]

\* KeywordSearch.search(query, topK) on the index (docs, index)
KeywordSearchCall(docs, index, query, topK) ==
    IF Len(docs) = 0 THEN EmptyIndexResult
    ELSE TheOne({
            LET order == SortOrderDesc([i \in 1..Len(scores) |-> scores[i].score])
                topResults == Slice([i \in 1..Len(scores) |-> scores[order[i]]], topK)
            IN  [outcome |-> "ok",
                 results |-> [i \in 1..Len(topResults) |->
                                [id |-> docs[topResults[i].index].id,
                                 score |-> normalizeScore(topResults[i].score)]]]
            : scores \in {PositiveScores(query, index, 1)}})

(***************************************************************************)
(* HybridSearch (with its KeywordSearch, VectorSearch and SearchFusion)    *)
(***************************************************************************)
Strategies == {"vector", "keyword", "hybrid"}

\* An optional argument: <<>> when absent, <<v>> when given as v
Undefined == <<>>

Some(v) == <<v>>

\* options.topK and options.minScore as the callers pass them
TopKOptions == {Undefined} \cup {Some(k) : k \in 1..MaxLen}

MinScoreOptions == {Undefined, Some(Rat(1, 100))}

\* What VectorSearch.search can answer for a request of at most topK
\* results: the embedding provider or the vector store fails, or the store
\* returns up to topK matches.
VectorMatches == {ResultList(s) : s \in {<<>>, <<"d1">>, <<"d2">>, <<"d1", "d2">>,
                                         <<"d2", "d1">>}}

VectorAnswers(topK) ==
    {[outcome |-> "upstream", results |-> <<>>]}
        \cup {[outcome |-> "ok", results |-> v] : v \in {m \in VectorMatches : Len(m) <= topK}}

NotReadyIgnored(ready) == FALSE

\* if (!this.isKeywordIndexReady) throw new Error('Keyword index not ready...')
NotReady(ready) == ~ready

\* keywordOnlySearch(query, topK)
keywordOnlySearch(ready, docs, index, query, topK) ==
    IF NotReady(ready) THEN [outcome |-> "notIndexed", results |-> <<>>]
    ELSE KeywordSearchCall(docs, index, query, topK)

PromiseAllSettled(vectorAnswer, keywordAnswer) ==
    [outcome |-> "ok",
     vectorResults |-> IF vectorAnswer.outcome = "ok" THEN vectorAnswer.results ELSE <<>>,
     keywordResults |-> IF keywordAnswer.outcome = "ok" THEN keywordAnswer.results
                        ELSE <<>>]

\* const [vectorResults, keywordResults] = await Promise.all([...]): a throw
\* of keywordSearch.search leaves the function before the await, a rejection
\* of the vector search is thrown by the await
PromiseAll(vectorAnswer, keywordAnswer) ==
    IF keywordAnswer.outcome # "ok"
    THEN [outcome |-> keywordAnswer.outcome, vectorResults |-> <<>>,
          keywordResults |-> <<>>]
    ELSE IF vectorAnswer.outcome # "ok"
    THEN [outcome |-> vectorAnswer.outcome, vectorResults |-> <<>>,
          keywordResults |-> <<>>]
    ELSE [outcome |-> "ok", vectorResults |-> vectorAnswer.results,
          keywordResults |-> keywordAnswer.results]

\* hybridSearchImpl(query, topK, options) with the vector search's answer
hybridSearchImpl(ready, cfg, docs, index, query, topK, vectorAnswer) ==
    IF NotReady(ready)
    THEN [outcome |-> "notIndexed", results |-> <<>>,
          vectorResults |-> <<>>, keywordResults |-> <<>>]
    ELSE TheOne({
            IF both.outcome # "ok"
            THEN [results |-> <<>>] @@ both
            ELSE [results |-> fuseResults(cfg, both.vectorResults, both.keywordResults,
                                          topK)] @@ both
            : both \in {PromiseAll(vectorAnswer,
                                   KeywordSearchCall(docs, index, query, topK * 2))}})

\* results.filter((r) => r.score >= options.minScore)
RECURSIVE FilterMinScore(_, _, _)
FilterMinScore(results, minScore, i) ==
    IF i > Len(results) THEN <<>>
    ELSE (IF RatLE(minScore, results[i].score) THEN <<results[i]>> ELSE <<>>)
         \o FilterMinScore(results, minScore, i + 1)

\* HybridSearch.search(query, strategy, options)
hybridSearch(ready, cfg, docs, index, query, strategy, topKOption, minScore, vectorAnswer) ==
    LET topK == IF topKOption = Undefined THEN 10 ELSE topKOption[1]
        searched ==
            CASE strategy = "vector" ->
                   [outcome |-> vectorAnswer.outcome, results |-> vectorAnswer.results,
                    vectorResults |-> vectorAnswer.results, keywordResults |-> <<>>]
              [] strategy = "keyword" ->
                   TheOne({[outcome |-> k.outcome, results |-> k.results,
                            vectorResults |-> <<>>, keywordResults |-> k.results]
                           : k \in {keywordOnlySearch(ready, docs, index, query, topK)}})
              [] OTHER -> hybridSearchImpl(ready, cfg, docs, index, query, topK, vectorAnswer)
    IN  TheOne({
            IF found.outcome # "ok"
            THEN [outcome |-> found.outcome, results |-> <<>>]
            ELSE TheOne({
                    [outcome |-> "ok",
                     results |-> results,
                     searchMetrics |->
                        [totalResults   |-> Len(results),
                         vectorResults  |-> Len(found.vectorResults),
                         keywordResults |-> Len(found.keywordResults),
                         fusedResults   |-> IF strategy = "hybrid" THEN Len(results) ELSE 0,
                         vectorWeight   |-> cfg.vectorWeight,
                         keywordWeight  |-> cfg.keywordWeight]]
                    : results \in {IF minScore # Undefined
                                   THEN FilterMinScore(found.results, minScore[1], 1)
                                   ELSE found.results}})
            : found \in {searched}})

MaxIndexCalls == 2   \* the count of completed indexDocuments calls is kept up to here

KeywordInit ==
    /\ documents = <<>>
    /\ tfidf = <<>>
    /\ keywordIndexCalled = FALSE
    /\ isKeywordIndexReady = FALSE
    /\ indexCompleted = 0
    /\ lastSearch = NoCall

\* KeywordSearch.indexDocuments(docs): the fields are assigned first, the
\* loop then fills the TfIdf and may throw part-way.
KeywordIndexAssign(docs) ==
    /\ documents' = docs
    /\ tfidf' = IndexedTexts(docs)
    /\ keywordIndexCalled' = TRUE

\* The caller takes the result of its last call; it issues the next call
\* after that.
Return ==
    /\ lastSearch.called
    /\ lastSearch' = NoCall
    /\ UNCHANGED <<documents, tfidf, keywordIndexCalled, isKeywordIndexReady,
                   indexCompleted>>
    /\ UNCHANGED otherThanKeyword

\* The caller takes the result of its last call and keeps what
\* keywordSearch.search answered until its next call.
ReturnKept ==
    /\ lastSearch.called
    /\ lastSearch' = IF lastSearch.op = "KeywordSearch.search"
                     THEN [called |-> FALSE, op |-> lastSearch.op,
                           query |-> lastSearch.query, topK |-> lastSearch.topK,
                           outcome |-> lastSearch.outcome,
                           results |-> lastSearch.results]
                     ELSE NoCall
    /\ UNCHANGED <<documents, tfidf, keywordIndexCalled, isKeywordIndexReady,
                   indexCompleted>>
    /\ UNCHANGED otherThanKeyword

ReadyIfNotEmpty(docs) == Len(docs) > 0

\* this.isKeywordIndexReady = true, whatever was indexed
ReadyAfterIndex(docs) == TRUE

\* hybridSearch.indexDocuments(docs)
IndexDocuments ==
    \E docs \in Corpora :
        /\ ~lastSearch.called
        /\ KeywordIndexAssign(docs)
        /\ IF IndexThrows(docs)
           THEN /\ UNCHANGED <<isKeywordIndexReady, indexCompleted>>
                /\ lastSearch' = [called |-> TRUE, op |-> "indexDocuments",
                                  outcome |-> "typeError", results |-> <<>>]
           ELSE /\ isKeywordIndexReady' = ReadyAfterIndex(docs)
                /\ indexCompleted' = Min(indexCompleted + 1, MaxIndexCalls)
                /\ lastSearch' = [called |-> TRUE, op |-> "indexDocuments",
                                  outcome |-> "ok", results |-> <<>>]
        /\ UNCHANGED otherThanKeyword

\* hybridSearch.getKeywordSearch().clear()
KeywordClear ==
    /\ ~lastSearch.called
    /\ documents' = <<>>
    /\ tfidf' = <<>>
    /\ lastSearch' = [called |-> TRUE, op |-> "clear", outcome |-> "ok", results |-> <<>>]
    /\ UNCHANGED <<keywordIndexCalled, isKeywordIndexReady, indexCompleted>>
    /\ UNCHANGED otherThanKeyword

\* Whether documents and tfidf describe one corpus, whole
IndexConsistent(docs, index) ==
    /\ Len(index) = Len(docs)
    /\ \A i \in 1..Len(docs) :
          ~SearchableTextThrows(docs[i]) /\ index[i] = createSearchableText(docs[i])

TfidfAfterSearchAddsQuery(index, query) == Append(index, query)

\* this.tfidf.tfidfs(query, callback) reads the term statistics: search adds
\* no document to the TfIdf and assigns no field
TfidfAfterSearch(index, query) == index

\* Whether the call before this one, with nothing in between, was
\* keywordSearch.search with the same arguments
RepeatsLastSearch(query, topK) ==
    /\ "op" \in DOMAIN lastSearch
    /\ lastSearch.op = "KeywordSearch.search"
    /\ lastSearch.query = query
    /\ lastSearch.topK = topK

\* keywordSearch.search(query, topK) on the KeywordSearch itself
KeywordSearchDirect ==
    \E query \in Queries, topK \in 0..MaxLen :
        /\ ~lastSearch.called
        /\ lastSearch' =
              [called |-> TRUE, op |-> "KeywordSearch.search",
               indexedBefore |-> keywordIndexCalled,
               sawConsistentIndex |-> IndexConsistent(documents, tfidf),
               repeats |-> RepeatsLastSearch(query, topK),
               query |-> query, topK |-> topK]
               @@ KeywordSearchCall(documents, tfidf, query, topK)
        /\ tfidf' = TfidfAfterSearch(tfidf, query)
        /\ UNCHANGED <<documents, keywordIndexCalled, isKeywordIndexReady,
                       indexCompleted>>
        /\ UNCHANGED otherThanKeyword

\* hybridSearch.search(query, strategy, options)
Search ==
    \E query \in Queries, strategy \in Strategies, topKOption \in TopKOptions,
       minScore \in MinScoreOptions :
        LET topK == IF topKOption = Undefined THEN 10 ELSE topKOption[1]
            asked == IF strategy = "hybrid" THEN topK * 2 ELSE topK
        IN  \E vectorAnswer \in VectorAnswers(asked) :
              /\ ~lastSearch.called
              /\ lastSearch' =
                    [called |-> TRUE, op |-> "HybridSearch.search",
                     strategy |-> strategy,
                     completedBefore |-> indexCompleted,
                     sawConsistentIndex |-> IndexConsistent(documents, tfidf),
                     query |-> query,
                     topK |-> topK,
                     minScore |-> minScore,
                     vectorAnswer |-> IF strategy = "keyword"
                                      THEN [outcome |-> "none", results |-> <<>>]
                                      ELSE vectorAnswer]
                    @@ hybridSearch(isKeywordIndexReady, config, documents, tfidf,
                                    query, strategy, topKOption, minScore, vectorAnswer)
              /\ UNCHANGED <<documents, tfidf, keywordIndexCalled, isKeywordIndexReady,
                             indexCompleted>>
              /\ UNCHANGED otherThanKeyword

(***************************************************************************)
(* MMRReranker                                                             *)
(***************************************************************************)
Mmr1 == [id |-> "m1", content |-> <<"react", "hooks", "state">>, score |-> Rat(9, 10)]

Mmr2 == [id |-> "m2", content |-> <<"React", "hooks", "effect">>, score |-> Rat(9, 10)]

Mmr3 == [id |-> "m3", content |-> <<"routing", "guide">>, score |-> Rat(1, 2)]

Mmr4 == [id |-> "m4", content |-> <<"react", "hooks", "state">>, score |-> Rat(7, 10)]

MmrCandidates == {Mmr1, Mmr2, Mmr3, Mmr4}

\* Scenario B: three near-duplicates, 9 of whose 10 or 11 words are shared by
\* each pair, and one candidate that shares no word with them
SharedWords == <<"w1", "w2", "w3", "w4", "w5", "w6", "w7", "w8", "w9">>

ScenarioB ==
    <<[id |-> "b1", content |-> SharedWords \o <<"hooks">>, score |-> Rat(19, 20)],
      [id |-> "b2", content |-> SharedWords, score |-> Rat(9, 10)],
      [id |-> "b3", content |-> SharedWords \o <<"state">>, score |-> Rat(17, 20)],
      [id |-> "b4", content |-> <<"routing", "guide">>, score |-> Rat(1, 2)]>>

\* The lists handed to rerank, in any order of score
MmrLists == DistinctSeqs(MmrCandidates, MaxLen + 1) \cup {ScenarioB}

Lambdas == {RatInt(0), Rat(3, 10), Rat(1, 2), RatInt(1)}

\* options.topK of a rerank call: absent, or a count
RerankTopKs == {Undefined} \cup {Some(k) : k \in 0..MaxTopK}

\* new Set(text.toLowerCase().split(/\s+/)): the empty text splits into [""]
WordSet(text) == IF Len(text) = 0 THEN {""} ELSE {ToLowerWord(text[i]) : i \in 1..Len(text)}

\* calculateTextSimilarity(text1, text2): Jaccard similarity of the word sets
calculateTextSimilarity(text1, text2) ==
    LET words1 == WordSet(text1)
        words2 == WordSet(text2)
    IN  Rat(Cardinality(words1 \cap words2), Cardinality(words1 \cup words2))

\* calculateMaxSimilarity(result, selected)
RECURSIVE calculateMaxSimilarity(_, _, _)
calculateMaxSimilarity(result, selected, i) ==
    IF i > Len(selected) THEN RatInt(0)
    ELSE LET similarity == calculateTextSimilarity(result.content, selected[i].content)
             rest == calculateMaxSimilarity(result, selected, i + 1)
         IN  IF RatLT(rest, similarity) THEN similarity ELSE rest

\* lambda * relevance - (1 - lambda) * maxSimilarity
MmrScore(lambda, result, selected) ==
    RatSub(RatMul(lambda, result.score),
           RatMul(RatSub(RatInt(1), lambda), calculateMaxSimilarity(result, selected, 1)))

\* The for loop over remaining: the first index whose score is strictly above
\* every earlier one's
RECURSIVE MaxMmrIndex(_, _, _, _, _)
MaxMmrIndex(lambda, remaining, selected, i, best) ==
    IF i > Len(remaining) THEN best
    ELSE IF RatLT(MmrScore(lambda, remaining[best], selected),
                  MmrScore(lambda, remaining[i], selected))
         THEN MaxMmrIndex(lambda, remaining, selected, i + 1, i)
         ELSE MaxMmrIndex(lambda, remaining, selected, i + 1, best)

\* {...result, originalScore, rerankedScore, score: rerankedScore}
WithRerankedScore(result, rerankedScore) ==
    [originalScore |-> result.score, rerankedScore |-> rerankedScore,
     score |-> rerankedScore] @@ result

\* toRerankedResult(result, rerankedScore)
toRerankedResult(result, rerankedScore) == WithRerankedScore(result, rerankedScore)

RemoveAt(s, i) == SubSeq(s, 1, i - 1) \o SubSeq(s, i + 1, Len(s))

\* while (selected.length < k && remaining.length > 0) { ... }
RECURSIVE MmrLoop(_, _, _, _)
MmrLoop(lambda, selected, remaining, k) ==
    IF Len(selected) < k /\ Len(remaining) > 0
    THEN LET at == MaxMmrIndex(lambda, remaining, selected, 2, 1)
             picked == remaining[at]
         IN  MmrLoop(lambda,
                     Append(selected,
                            toRerankedResult(picked, MmrScore(lambda, picked, selected))),
                     RemoveAt(remaining, at), k)
    ELSE selected

\* MMRReranker.rerank(results, topK)
mmrRerank(lambda, results, topK) ==
    IF Len(results) = 0 THEN <<>>
    ELSE LET k == IF topK = Undefined THEN Len(results) ELSE topK[1]
         IN  MmrLoop(lambda, <<toRerankedResult(results[1], results[1].score)>>,
                     Tail(results), k)

\* new MMRReranker({lambda}).rerank(results, topK)
MmrRerank ==
    \E lambda \in Lambdas, results \in MmrLists, topK \in RerankTopKs :
        /\ ~mmrCall.called
        /\ mmrCall' = [called |-> TRUE, lambda |-> lambda, results |-> results,
                       topK |-> topK]
        /\ mmrOut' = mmrRerank(lambda, results, topK)
        /\ UNCHANGED otherThanMmr

\* C4: with lambda = 1.0 rerank returns the candidates in the order of the
\* first topK candidates of the input sorted by score descending (all of
\* them when topK is absent).
SortedByScore(results) ==
    LET order == SortOrderDesc([i \in 1..Len(results) |-> results[i].score])
    IN  [i \in 1..Len(results) |-> results[order[i]]]

FirstByScore(results, topK) ==
    IF topK = Undefined THEN SortedByScore(results)
    ELSE SubSeq(SortedByScore(results), 1, Min(topK[1], Len(results)))

C4_LambdaOneIsScoreOrder ==
    (mmrCall.called /\ mmrCall.lambda = RatInt(1)) =>
        [i \in 1..Len(mmrOut) |-> mmrOut[i].originalScore]
            = [i \in 1..Len(FirstByScore(mmrCall.results, mmrCall.topK)) |->
                  FirstByScore(mmrCall.results, mmrCall.topK)[i].score]

(***************************************************************************)
(* RelevanceReranker                                                       *)
(***************************************************************************)
\* metadata.title and metadata.heading are texts (NoText when absent or
\* empty: both are falsy); metadata.chunkIndex is optional.
Rel1 == [id |-> "r1", score |-> Rat(4, 5),
         metadata |-> [title |-> <<"React", "Hooks">>, heading |-> NoText,
                       chunkIndex |-> Some(0)]]

Rel2 == [id |-> "r2", score |-> Rat(4, 5),
         metadata |-> [title |-> NoText, heading |-> <<"state", "hooks">>,
                       chunkIndex |-> Undefined]]

Rel3 == [id |-> "r3", score |-> Rat(3, 5),
         metadata |-> [title |-> <<"hooks">>, heading |-> <<"hooks">>,
                       chunkIndex |-> Some(2)]]

RelCandidates == {Rel1, Rel2, Rel3}

\* The lists handed to rerank; a candidate may come more than once
RelLists == SeqsUpTo(RelCandidates, MaxLen + 1)

RelQueries == {<<"hooks">>, <<"React", "state">>, <<"is", "a">>, NoText}

\* The result of 0 / 0
NaN == [n |-> 0, d |-> 0]

\* x > 0 for a number that may be NaN
IsPositive(x) == x.d # 0 /\ x.n > 0

\* new Set(query.toLowerCase().split(/\s+/).filter((term) => term.length > 2))
QueryTerms(query) == {t \in {ToLowerWord(query[i]) : i \in 1..Len(query)} : Len(t) > 2}

\* calculateTitleBoost / calculateHeadingBoost: (matchCount / queryTerms.size) * boost
MatchBoost(text, queryTerms, boost) ==
    LET words == WordSet(text)
        matchCount == Cardinality(queryTerms \cap words)
    IN  IF Cardinality(queryTerms) = 0 THEN NaN
        ELSE RatMul(Rat(matchCount, Cardinality(queryTerms)), boost)

calculateTitleBoost(title, queryTerms) == MatchBoost(title, queryTerms, Rat(1, 5))

calculateHeadingBoost(heading, queryTerms) == MatchBoost(heading, queryTerms, Rat(1, 10))

\* calculatePositionBoost(chunkIndex): 0.05 / (1 + chunkIndex * 0.1)
calculatePositionBoost(chunkIndex) ==
    IF chunkIndex = Undefined THEN RatInt(0)
    ELSE RatDiv(Rat(1, 20), RatAdd(RatInt(1), Rat(chunkIndex[1], 10)))

\* The boost summed in the callback of results.map
RelBoost(result, queryTerms) ==
    LET titleBoost == IF result.metadata.title # NoText
                      THEN calculateTitleBoost(result.metadata.title, queryTerms)
                      ELSE RatInt(0)
        headingBoost == IF result.metadata.heading # NoText
                        THEN calculateHeadingBoost(result.metadata.heading, queryTerms)
                        ELSE RatInt(0)
        positionBoost == calculatePositionBoost(result.metadata.chunkIndex)
        afterTitle == IF IsPositive(titleBoost) THEN titleBoost ELSE RatInt(0)
        afterHeading == IF IsPositive(headingBoost) THEN RatAdd(afterTitle, headingBoost)
                        ELSE afterTitle
    IN  IF IsPositive(positionBoost) THEN RatAdd(afterHeading, positionBoost)
        ELSE afterHeading

\* results.map(...): every result with its boosted score
RelMapped(results, queryTerms) ==
    [i \in 1..Len(results) |->
        WithRerankedScore(results[i],
                          RatAdd(results[i].score, RelBoost(results[i], queryTerms)))]

\* reranked.sort((a, b) => b.rerankedScore - a.rerankedScore)
RelSorted(reranked) ==
    LET order == SortOrderDesc([i \in 1..Len(reranked) |-> reranked[i].rerankedScore])
    IN  [i \in 1..Len(reranked) |-> reranked[order[i]]]

RelTakeOneLess(reranked, topK) ==
    IF topK # Undefined /\ topK[1] # 0 THEN Slice(reranked, topK[1] - 1) ELSE reranked

\* topK ? reranked.slice(0, topK) : reranked
RelTake(reranked, topK) ==
    IF topK # Undefined /\ topK[1] # 0 THEN Slice(reranked, topK[1]) ELSE reranked

\* RelevanceReranker.rerank(results, query, topK)
relevanceRerank(results, query, topK) ==
    RelTake(RelSorted(RelMapped(results, QueryTerms(query))), topK)

\* new RelevanceReranker().rerank(results, query, topK)
RelevanceRerank ==
    \E results \in RelLists, query \in RelQueries, topK \in RerankTopKs :
        /\ ~relCall.called
        /\ relCall' = [called |-> TRUE, results |-> results, query |-> query,
                       topK |-> topK]
        /\ relOut' = relevanceRerank(results, query, topK)
        /\ UNCHANGED otherThanRel

CountId(s, id) == Cardinality({i \in 1..Len(s) : s[i].id = id})

\* C8: RelevanceReranker.rerank never returns a candidate more often than
\* it was given; when topK is absent or at least the input length the output
\* holds the same ids with the same multiplicity as the input; a candidate
\* is missing from the output only when topK is supplied and smaller than
\* the input length.
C8_RelevanceNeverDrops ==
    relCall.called =>
        LET in == relCall.results
            k  == relCall.topK
        IN  /\ \A id \in IdsOf(in) \cup IdsOf(relOut) :
                  CountId(relOut, id) <= CountId(in, id)
            /\ (k = Undefined \/ k[1] >= Len(in)) =>
                  \A id \in IdsOf(in) : CountId(relOut, id) = CountId(in, id)
            /\ (\E id \in IdsOf(in) : CountId(relOut, id) < CountId(in, id)) =>
                  (k # Undefined /\ k[1] < Len(in))

\* A call with topK equal to the input length whose output is the input
\* reordered
C8_Witness ==
    /\ relCall.called
    /\ relCall.topK # Undefined
    /\ relCall.topK[1] = Len(relCall.results)
    /\ Len(relCall.results) >= 2
    /\ Len(relOut) = Len(relCall.results)
    /\ IdSeq(relOut) # IdSeq(relCall.results)

(***************************************************************************)
(* PromptBuilder                                                           *)
(*                                                                         *)
(* A text is the sequence of the tokens encoder.encode splits it into; the *)
(* texts built here are joined at newlines and separators, where the       *)
(* encoder splits, so that concatenation is \o.                            *)
(***************************************************************************)
MaxBudget == 12

\* countTokens(text): encoder.encode(text).length
countTokens(text) == Len(text)

\* DEFAULT_QA_TEMPLATE, the system text and the text around the placeholders
\* each abbreviated to one token
DefaultTemplate ==
    [system |-> <<"You are a helpful technical documentation assistant.">>,
     user   |-> <<"Question: ", "{{QUERY}}", "\n\nContext from documentation:\n",
                  "{{CONTEXT}}", "\n\nPlease answer the question.">>]

Prompt1 == [id |-> "p1", content |-> <<"use", "state">>,
            metadata |-> [source |-> <<"hooks.md">>, title |-> NoText, heading |-> NoText]]

Prompt2 == [id |-> "p2", content |-> <<"effects">>,
            metadata |-> [source |-> <<"effects.md">>, title |-> <<"Effects">>,
                          heading |-> <<"Cleanup">>]]

Prompt3 == [id |-> "p3", content |-> <<"props", "flow", "down">>,
            metadata |-> [source |-> NoText, title |-> NoText, heading |-> NoText]]

PromptCandidates == {Prompt1, Prompt2, Prompt3}

ScenarioCIds == <<"c1", "c2", "c3", "c4", "c5">>

\* Scenario C: five candidates whose context block counts 800 tokens
ScenarioC ==
    [i \in 1..5 |->
        [id |-> ScenarioCIds[i], content |-> [t \in 1..800 |-> "token"],
         metadata |-> [source |-> NoText, title |-> NoText, heading |-> NoText]]]

\* context.searchResults, ranked upstream
PromptLists == DistinctSeqs(PromptCandidates, MaxLen + 1) \cup {ScenarioC}

PromptQueries == {<<"how", "hooks">>, <<"{{CONTEXT}}">>, <<"$&", "hooks">>}

\* context.includeMetadata
IncludeMetadataOptions == {Undefined, Some(TRUE), Some(FALSE)}

\* parts.join(separator)
RECURSIVE Join(_, _)
Join(parts, separator) ==
    IF Len(parts) = 0 THEN NoText
    ELSE IF Len(parts) = 1 THEN parts[1]
    ELSE parts[1] \o separator \o Join(Tail(parts), separator)

\* formatResultAsContext(result, includeMetadata)
formatResultAsContext(result, includeMetadata) ==
    LET sourceLine == IF result.metadata.source # NoText
                      THEN << <<"Source: ">> \o result.metadata.source >> ELSE <<>>
        titleLine == IF result.metadata.title # NoText
                     THEN << <<"Title: ">> \o result.metadata.title >> ELSE <<>>
        headingLine == IF result.metadata.heading # NoText
                       THEN << <<"Section: ">> \o result.metadata.heading >> ELSE <<>>
        metadataLines == IF includeMetadata THEN sourceLine \o titleLine \o headingLine
                         ELSE <<>>
        header == IF Len(metadataLines) > 0
                  THEN << <<"[">> \o Join(metadataLines, <<" | ">>) \o <<"]">> >>
                  ELSE <<>>
    IN  Join(header \o <<result.content>>, <<"\n">>)

\* contextParts.join('\n\n---\n\n')
Separator == <<"\n\n", "---\n\n">>

ReachesBudget(currentTokens, blockTokens, maxContextTokens) ==
    currentTokens + blockTokens >= maxContextTokens

\* if (currentTokens + blockTokens > this.maxContextTokens)
ExceedsBudget(currentTokens, blockTokens, maxContextTokens) ==
    currentTokens + blockTokens > maxContextTokens

\* The for loop of buildContextString from result i on
RECURSIVE ContextLoop(_, _, _, _, _, _, _)
ContextLoop(maxContextTokens, results, includeMetadata, i, contextParts, contextUsed, currentTokens) ==
    IF i > Len(results)
    THEN [contextParts |-> contextParts, contextUsed |-> contextUsed, truncated |-> FALSE]
    ELSE LET contextBlock == formatResultAsContext(results[i], includeMetadata)
             blockTokens == countTokens(contextBlock)
         IN  IF ExceedsBudget(currentTokens, blockTokens, maxContextTokens)
             THEN [contextParts |-> contextParts, contextUsed |-> contextUsed,
                   truncated |-> TRUE]
             ELSE ContextLoop(maxContextTokens, results, includeMetadata, i + 1,
                              Append(contextParts, contextBlock),
                              Append(contextUsed, results[i]),
                              currentTokens + blockTokens)

\* buildContextString(results, includeMetadata)
buildContextString(maxContextTokens, results, includeMetadata) ==
    LET loop == ContextLoop(maxContextTokens, results, includeMetadata, 1, <<>>, <<>>, 0)
    IN  [contextString |-> Join(loop.contextParts, Separator),
         contextUsed |-> loop.contextUsed, truncated |-> loop.truncated]

\* The replacement text of String.prototype.replace(pattern, replacement):
\* $& stands for the matched text and $$ for a dollar sign
ExpandReplacement(replacement, matched) ==
    [i \in 1..Len(replacement) |->
        IF replacement[i] = "$&" THEN matched
        ELSE IF replacement[i] = "$$" THEN "$"
        ELSE replacement[i]]

\* text.replace(pattern, replacement) with a string pattern: the first
\* occurrence only
ReplaceFirst(text, pattern, replacement) ==
    LET at == {i \in 1..Len(text) : text[i] = pattern}
    IN  IF at = {} THEN text
        ELSE LET first == CHOOSE i \in at : \A j \in at : i <= j
             IN  SubSeq(text, 1, first - 1) \o ExpandReplacement(replacement, pattern)
                     \o SubSeq(text, first + 1, Len(text))

ResultsToUseAll(searchResults, maxResultsInContext) == searchResults

\* searchResults.slice(0, this.maxResultsInContext)
ResultsToUse(searchResults, maxResultsInContext) == Slice(searchResults, maxResultsInContext)

\* buildPrompt(context); contextString is the local the placeholder is
\* replaced with
buildPrompt(b, query, searchResults, includeMetadata) ==
    LET resultsToUse == ResultsToUse(searchResults, b.maxResultsInContext)
        built == buildContextString(b.maxContextTokens, resultsToUse,
                     IF includeMetadata = Undefined THEN TRUE ELSE includeMetadata[1])
        systemPrompt == b.template.system
        userPrompt == ReplaceFirst(ReplaceFirst(b.template.user, "{{QUERY}}", query),
                                   "{{CONTEXT}}", built.contextString)
    IN  [contextString |-> built.contextString,
         generated |-> [systemPrompt |-> systemPrompt, userPrompt |-> userPrompt,
                        contextUsed |-> built.contextUsed,
                        totalTokens |-> countTokens(systemPrompt) + countTokens(userPrompt),
                        truncated |-> built.truncated]]

\* new PromptBuilder(): 3000 context tokens, 10 results, the default template
PromptInit ==
    /\ builder = [maxContextTokens |-> 3000, maxResultsInContext |-> 10,
                  template |-> DefaultTemplate]
    /\ promptCall = NoCall
    /\ prompt = NoCall

\* new PromptBuilder({maxContextTokens, maxResultsInContext}), among them the
\* builder of the defaults
PromptConfiguredInit ==
    /\ \E limits \in ((0..MaxBudget) \X (0..(MaxLen + 1))) \cup {<<3000, 10>>} :
          builder = [maxContextTokens |-> limits[1],
                     maxResultsInContext |-> limits[2],
                     template |-> DefaultTemplate]
    /\ promptCall = NoCall
    /\ prompt = NoCall

\* promptBuilder.buildPrompt({query, searchResults, includeMetadata})
BuildPrompt ==
    \E query \in PromptQueries, searchResults \in PromptLists,
       includeMetadata \in IncludeMetadataOptions :
        /\ ~promptCall.called
        /\ LET out == buildPrompt(builder, query, searchResults, includeMetadata)
           IN  /\ promptCall' = [called |-> TRUE, query |-> query,
                                 searchResults |-> searchResults,
                                 includeMetadata |-> includeMetadata,
                                 contextString |-> out.contextString]
               /\ prompt' = out.generated
        /\ UNCHANGED <<builder, otherThanPrompt>>

(***************************************************************************)
(* DiversityReranker                                                       *)
(***************************************************************************)
\* Search results as the rerankers and the prompt builder of a QAEngine get
\* them: content and metadata are texts, metadata.chunkIndex is optional.
Cand1 == [id |-> "v1", content |-> <<"react", "hooks", "state">>, score |-> Rat(9, 10),
          metadata |-> [source |-> <<"hooks.md">>, title |-> <<"React", "Hooks">>,
                        heading |-> NoText, chunkIndex |-> Some(0)]]

\* Half of the words of Cand1 and Cand2 together are in both
Cand2 == [id |-> "v2", content |-> <<"react", "hooks", "effect">>, score |-> Rat(4, 5),
          metadata |-> [source |-> <<"effects.md">>, title |-> NoText,
                        heading |-> <<"state", "hooks">>, chunkIndex |-> Some(0)]]

\* The chunk of Cand1 again (same source, same chunkIndex), with another text
Cand3 == [id |-> "v3", content |-> <<"routing", "guide">>, score |-> Rat(7, 10),
          metadata |-> [source |-> <<"hooks.md">>, title |-> <<"hooks">>,
                        heading |-> <<"hooks">>, chunkIndex |-> Some(0)]]

\* The words of Cand1 in another source, no chunkIndex
Cand4 == [id |-> "v4", content |-> <<"React", "hooks", "state">>, score |-> Rat(3, 5),
          metadata |-> [source |-> <<"state.md">>, title |-> NoText,
                        heading |-> NoText, chunkIndex |-> Undefined]]

Candidates == {Cand1, Cand2, Cand3, Cand4}

\* Result lists with distinct ids, in any order
CandidateLists == DistinctSeqs(Candidates, MaxLen + 1)

\* Thresholds handed to setSimilarityThreshold: inside 0..1, its ends, and
\* outside
Thresholds == {Rat(-1, 2), RatInt(0), Rat(1, 2), Rat(7, 10), RatInt(1), Rat(3, 2)}

\* new DiversityReranker(): threshold 0.7, sourceWeighting on
DiversityInit ==
    /\ diversity = [similarityThreshold |-> Rat(7, 10), sourceWeighting |-> TRUE]
    /\ divCall = NoCall
    /\ divOut = <<>>

\* setSimilarityThreshold(threshold) throws outside 0..1
ThresholdRejected(threshold) == RatLT(threshold, RatInt(0)) \/ RatLT(RatInt(1), threshold)

\* DiversityReranker.calculateSimilarity(result1, result2)
DiversityCalculateSimilarity(result1, result2) ==
    IF /\ result1.metadata.source = result2.metadata.source
       /\ result1.metadata.chunkIndex = result2.metadata.chunkIndex
    THEN RatInt(1)
    ELSE calculateTextSimilarity(result1.content, result2.content)

TooSimilarOrEqual(similarity, threshold) == RatLE(threshold, similarity)

\* similarity > this.similarityThreshold
TooSimilar(similarity, threshold) == RatLT(threshold, similarity)

\* isSimilarToSelected(result, selected)
isSimilarToSelected(result, selected, threshold) ==
    \E i \in 1..Len(selected) :
        TooSimilar(DiversityCalculateSimilarity(result, selected[i]), threshold)

\* calculateSourceBonus(result, seenSources)
calculateSourceBonus(result, seenSources, sourceWeighting) ==
    IF ~sourceWeighting THEN RatInt(0)
    ELSE IF result.metadata.source \in seenSources THEN RatInt(0) ELSE Rat(1, 10)

\* The for loop of DiversityReranker.rerank from result i on
RECURSIVE DiversityLoop(_, _, _, _, _, _)
DiversityLoop(d, results, topK, i, selected, seenSources) ==
    IF i > Len(results) THEN selected
    ELSE IF topK # Undefined /\ topK[1] # 0 /\ Len(selected) >= topK[1] THEN selected
    ELSE IF isSimilarToSelected(results[i], selected, d.similarityThreshold)
    THEN DiversityLoop(d, results, topK, i + 1, selected, seenSources)
    ELSE DiversityLoop(d, results, topK, i + 1,
            Append(selected,
                   WithRerankedScore(results[i],
                       RatAdd(results[i].score,
                              calculateSourceBonus(results[i], seenSources,
                                                   d.sourceWeighting)))),
            seenSources \cup {results[i].metadata.source})

\* DiversityReranker.rerank(results, topK)
diversityRerank(d, results, topK) ==
    IF Len(results) = 0 THEN <<>> ELSE DiversityLoop(d, results, topK, 1, <<>>, {})

\* diversityReranker.setSimilarityThreshold(threshold)
SetSimilarityThreshold ==
    \E threshold \in Thresholds :
        /\ ~divCall.called
        /\ diversity' = IF ThresholdRejected(threshold) THEN diversity
                        ELSE [diversity EXCEPT !.similarityThreshold = threshold]
        /\ UNCHANGED <<divCall, divOut, otherThanDiversity>>

\* new DiversityReranker({sourceWeighting}) in place of the default one
SetSourceWeighting ==
    \E sourceWeighting \in BOOLEAN :
        /\ ~divCall.called
        /\ diversity' = [diversity EXCEPT !.sourceWeighting = sourceWeighting]
        /\ UNCHANGED <<divCall, divOut, otherThanDiversity>>

\* diversityReranker.rerank(results, topK)
DiversityRerank ==
    \E results \in CandidateLists, topK \in RerankTopKs :
        /\ ~divCall.called
        /\ divCall' = [called |-> TRUE, results |-> results, topK |-> topK]
        /\ divOut' = diversityRerank(diversity, results, topK)
        /\ UNCHANGED <<diversity, otherThanDiversity>>

(***************************************************************************)
(* Reranker: the three strategies behind one interface                     *)
(***************************************************************************)
\* RerankerStrategy; only the first three have a reranker of their own
RerankerStrategies == {"relevance", "mmr", "diversity", "cross-encoder"}

\* The strategy lists handed to rerankPipeline
PipelineStrategies ==
    {<<>>, <<"mmr">>, <<"relevance", "mmr">>, <<"diversity", "relevance">>,
     <<"mmr", "diversity">>, <<"cross-encoder", "relevance">>,
     <<"relevance", "diversity", "mmr">>}

RerankerQueries == {<<"hooks">>, <<"React", "state">>}

\* A match whose stored title is a number: VectorSearch.search casts
\* metadata.title to string without a test
Cand5 == [id |-> "v5", content |-> <<"props">>, score |-> Rat(1, 2),
          metadata |-> [source |-> <<"props.md">>, title |-> <<"42">>,
                        titleIsString |-> FALSE, heading |-> NoText,
                        chunkIndex |-> Some(1)]]

\* The lists handed to the Reranker
RerankerLists == DistinctSeqs(Candidates, MaxLen) \cup {<<Cand5>>, <<Cand1, Cand5>>}

\* calculateTitleBoost(result.metadata.title, queryTerms) throws a TypeError
\* at title.toLowerCase() when a truthy title is no string
TitleBoostThrows(results) ==
    \E i \in 1..Len(results) :
        /\ results[i].metadata.title # NoText
        /\ "titleIsString" \in DOMAIN results[i].metadata
        /\ ~results[i].metadata.titleIsString

\* new Reranker(): strategy relevance, MMR lambda 0.5, similarity threshold 0.7
RerankerInit ==
    /\ reranker = [strategy |-> "relevance", diversityLambda |-> Rat(1, 2),
                   similarityThreshold |-> Rat(7, 10)]
    /\ rerankCall = NoCall
    /\ rerankOut = NoCall

\* Reranker.calculateSimilarity(result1, result2), summed over the pairs
\* (i, j), i < j, from pair (i, j) on
RECURSIVE TotalSimilarity(_, _, _)
TotalSimilarity(results, i, j) ==
    IF i >= Len(results) THEN RatInt(0)
    ELSE IF j > Len(results) THEN TotalSimilarity(results, i + 1, i + 2)
    ELSE RatAdd(calculateTextSimilarity(results[i].content, results[j].content),
                TotalSimilarity(results, i, j + 1))

\* calculateDiversityScore(results): 1 - totalSimilarity / pairCount
calculateDiversityScore(results) ==
    IF Len(results) < 2 THEN RatInt(1)
    ELSE RatSub(RatInt(1),
                RatDiv(TotalSimilarity(results, 1, 2),
                       RatInt((Len(results) * (Len(results) - 1)) \div 2)))

\* default: results.slice(0, topK).map((r) => ({...r, originalScore, rerankedScore}))
PassThrough(results, topK) ==
    LET kept == IF topK = Undefined THEN results ELSE Slice(results, topK[1])
    IN  [i \in 1..Len(kept) |->
            [originalScore |-> kept[i].score, rerankedScore |-> kept[i].score] @@ kept[i]]

\* The switch on this.strategy
RerankByStrategy(rr, results, query, topK) ==
    CASE rr.strategy = "mmr" -> mmrRerank(rr.diversityLambda, results, topK)
      [] rr.strategy = "diversity" ->
            diversityRerank([similarityThreshold |-> rr.similarityThreshold,
                             sourceWeighting |-> TRUE], results, topK)
      [] rr.strategy = "relevance" -> relevanceRerank(results, query, topK)
      [] OTHER -> PassThrough(results, topK)

\* Reranker.rerank(results, query, topK); rerankTime is wall-clock time and
\* left out of the metrics
rerankerRerank(rr, results, query, topK) ==
    IF rr.strategy = "relevance" /\ TitleBoostThrows(results)
    THEN [threw |-> TRUE, results |-> <<>>, metrics |-> Undefined]
    ELSE TheOne({[threw |-> FALSE,
                  results |-> reranked,
                  metrics |-> [originalCount |-> Len(results),
                               rerankedCount |-> Len(reranked),
                               strategy |-> rr.strategy,
                               diversityScore |-> calculateDiversityScore(reranked)]]
                 : reranked \in {RerankByStrategy(rr, results, query, topK)}})

\* The for loop of rerankPipeline from strategy i on: the strategy is set,
\* rerank runs, the strategy saved before is put back; a throw of rerank
\* leaves the loop before the assignment that puts it back
RECURSIVE PipelineLoop(_, _, _, _, _, _, _)
PipelineLoop(rr, currentResults, query, strategies, topK, i, allMetrics) ==
    IF i > Len(strategies)
    THEN [threw |-> FALSE, results |-> currentResults, metrics |-> allMetrics,
          strategy |-> rr.strategy]
    ELSE TheOne({IF stage.threw
                 THEN [threw |-> TRUE, results |-> <<>>, metrics |-> <<>>,
                       strategy |-> strategies[i]]
                 ELSE PipelineLoop(rr, stage.results, query, strategies, topK, i + 1,
                                   Append(allMetrics, stage.metrics))
                 : stage \in {rerankerRerank([rr EXCEPT !.strategy = strategies[i]],
                                             currentResults, query, topK)}})

\* Reranker.rerankPipeline(results, query, strategies, topK)
rerankPipeline(rr, results, query, strategies, topK) ==
    PipelineLoop(rr, results, query, strategies, topK, 1, <<>>)

\* reranker.setStrategy(strategy)
SetStrategy ==
    \E strategy \in RerankerStrategies :
        /\ ~rerankCall.called
        /\ reranker' = [reranker EXCEPT !.strategy = strategy]
        /\ UNCHANGED <<rerankCall, rerankOut, otherThanReranker>>

\* reranker.rerank(results, query, topK)
Rerank ==
    \E results \in RerankerLists, query \in RerankerQueries, topK \in RerankTopKs :
        /\ ~rerankCall.called
        /\ rerankCall' = [called |-> TRUE, op |-> "rerank", results |-> results,
                          query |-> query, topK |-> topK]
        /\ rerankOut' = rerankerRerank(reranker, results, query, topK)
        /\ UNCHANGED <<reranker, otherThanReranker>>

\* reranker.rerankPipeline(results, query, strategies, topK)
RerankPipeline ==
    \E results \in RerankerLists, query \in RerankerQueries,
       strategies \in PipelineStrategies, topK \in RerankTopKs :
        /\ ~rerankCall.called
        /\ \E out \in {rerankPipeline(reranker, results, query, strategies, topK)} :
              /\ rerankCall' = [called |-> TRUE, op |-> "rerankPipeline",
                                results |-> results, query |-> query,
                                strategies |-> strategies, topK |-> topK]
              /\ rerankOut' = [threw |-> out.threw, results |-> out.results,
                                metrics |-> out.metrics]
              /\ reranker' = [reranker EXCEPT !.strategy = out.strategy]
        /\ UNCHANGED otherThanReranker

(***************************************************************************)
(* QAEngine, QAService and the handlers of /api/qa and /api/search         *)
(***************************************************************************)
\* results.push({id, content, score, metadata}) of KeywordSearch.search and
\* the matches.map of VectorSearch.search: the result of a search carries the
\* content and the metadata of the chunk it stands for
toSearchResult(result) ==
    LET doc == CHOOSE c \in Chunks : c.id = result.id
    IN  [id |-> result.id, content |-> doc.content, score |-> result.score,
         metadata |-> [source |-> doc.source, title |-> doc.title,
                       heading |-> doc.heading, chunkIndex |-> Some(doc.chunkIndex)]]

\* extractCitations(results); startLine and endLine are not kept in the model
extractCitations(results) ==
    [i \in 1..Len(results) |->
        [source |-> results[i].metadata.source, title |-> results[i].metadata.title,
         heading |-> results[i].metadata.heading,
         chunkIndex |-> results[i].metadata.chunkIndex]]

ExtractCitationsOfAll(contextUsed, finalResults) == extractCitations(finalResults)

\* const sources = this.promptBuilder.extractCitations(generatedPrompt.contextUsed)
SourcesOf(contextUsed, finalResults) == extractCitations(contextUsed)

\* The questions handed to QAEngine.ask, whose parameter is typed string: the
\* queries of the searches and the empty string
Questions == Queries \cup {NoText}

\* options.searchStrategy, options.useReranking, options.searchOptions.topK
StrategyOptions == {Undefined, Some("vector"), Some("keyword")}

UseRerankingOptions == {Undefined, Some(FALSE)}

AskTopKOptions == {Undefined, Some(0), Some(1)}

\* What the language model answers: a text, or the provider fails
LlmAnswers == {[outcome |-> "ok", answer |-> <<"Hooks", "hold", "state">>],
               [outcome |-> "upstream", answer |-> NoText]}

\* The retrieval work a search has begun when it ends: the embedding of the
\* query, the query of the vector store, the keyword search
RetrievalStarted(ready, strategy, vectorAnswer) ==
    LET vectorWork == {"embedding"} \cup
                      (IF vectorAnswer.outcome = "ok" THEN {"vectorQuery"} ELSE {})
    IN  CASE strategy = "vector" -> vectorWork
          [] strategy = "keyword" -> IF ready THEN {"keyword"} ELSE {}
          [] OTHER -> IF ready THEN vectorWork \cup {"keyword"} ELSE {}

\* The steps of an ask that reached the language model
StepsThrough(useReranking, found) ==
    <<"search">> \o (IF useReranking /\ Len(found) > 0 THEN <<"rerank">> ELSE <<>>)
        \o <<"buildPrompt", "llm">>

\* What ask answers when a step throws
AskThrows(question, outcome, retrieval, steps) ==
    [outcome |-> outcome, retrieval |-> retrieval, steps |-> steps, question |-> question,
     answer |-> NoText, sources |-> <<>>, searchResults |-> <<>>,
     contextUsed |-> <<>>, reranked |-> FALSE, truncated |-> FALSE]

\* QAEngine.ask(question, options): search, rerank, buildPrompt, the call of
\* the language model, extractCitations
ask(ready, cfg, docs, index, rr, b, question, strategyOption, useRerankingOption, topKOption, vectorAnswer, llmAnswer) ==
    LET searchStrategy == IF strategyOption = Undefined THEN "hybrid" ELSE strategyOption[1]
        useReranking == IF useRerankingOption = Undefined THEN TRUE
                        ELSE useRerankingOption[1]
        retrieval == RetrievalStarted(ready, searchStrategy, vectorAnswer)
    IN  TheOne({
          IF searchResults.outcome # "ok"
          THEN AskThrows(question, searchResults.outcome, retrieval, <<"search">>)
          ELSE TheOne({
                 TheOne({
                   IF llmAnswer.outcome # "ok"
                   THEN AskThrows(question, llmAnswer.outcome, retrieval,
                                  StepsThrough(useReranking, searchResults.results))
                   ELSE [outcome |-> "ok", retrieval |-> retrieval,
                         steps |-> StepsThrough(useReranking, searchResults.results),
                         question |-> question, answer |-> llmAnswer.answer,
                         sources |-> SourcesOf(generatedPrompt.contextUsed, finalResults),
                         searchResults |-> finalResults,
                         contextUsed |-> generatedPrompt.contextUsed,
                         reranked |-> useReranking /\ Len(searchResults.results) > 0,
                         truncated |-> generatedPrompt.truncated]
                   : generatedPrompt \in
                       {buildPrompt(b, question, finalResults, Undefined).generated}})
                 : finalResults \in
                     {IF useReranking /\ Len(searchResults.results) > 0
                      THEN rerankerRerank(rr,
                               [i \in 1..Len(searchResults.results) |->
                                   toSearchResult(searchResults.results[i])],
                               question,
                               IF topKOption = Undefined THEN Some(5) ELSE topKOption).results
                      ELSE [i \in 1..Len(searchResults.results) |->
                               toSearchResult(searchResults.results[i])]}})
          : searchResults \in
              {hybridSearch(ready, cfg, docs, index, question, searchStrategy,
                            topKOption, Undefined, vectorAnswer)}})

\* req.body.query: absent, a value that is no string, or a string
BodyQueries ==
    {[kind |-> "absent", text |-> NoText], [kind |-> "number", text |-> NoText]}
        \cup {[kind |-> "string", text |-> q] : q \in Questions}

\* if (!query || typeof query !== 'string')
InvalidQuery(query) == query.kind # "string" \/ query.text = NoText

\* res.status(400).json({error: 'Query is required and must be a string'})
BadRequest ==
    [status |-> 400, outcome |-> "validation", retrieval |-> {}, steps |-> <<>>,
     question |-> NoText,
     answer |-> NoText, sources |-> <<>>, searchResults |-> <<>>,
     contextUsed |-> <<>>, reranked |-> FALSE, truncated |-> FALSE]

\* res.json(...) after the pipeline returned, status 500 after it threw
Responded(result) == [status |-> IF result.outcome = "ok" THEN 200 ELSE 500] @@ result

\* The vector searches the store can answer for the topK of this call
AskVectorAnswers(strategyOption, topKOption) ==
    LET topK == IF topKOption = Undefined THEN 10 ELSE topKOption[1]
    IN  VectorAnswers(IF strategyOption = Undefined THEN topK * 2 ELSE topK)

QAInit ==
    /\ qaCall = NoCall
    /\ qaOut = NoCall
    /\ conversation = <<>>

\* qaEngine.ask(question, {searchStrategy, useReranking, searchOptions: {topK}})
Ask ==
    \E question \in Questions, strategyOption \in StrategyOptions,
       useRerankingOption \in UseRerankingOptions, topKOption \in AskTopKOptions,
       llmAnswer \in LlmAnswers :
      \E vectorAnswer \in AskVectorAnswers(strategyOption, topKOption) :
        /\ ~qaCall.called
        /\ ~lastSearch.called
        /\ qaCall' = [called |-> TRUE, op |-> "QAEngine.ask", invalid |-> question = NoText,
                      useReranking |-> useRerankingOption # Some(FALSE),
                      topK |-> topKOption,
                      searchStrategy |-> IF strategyOption = Undefined THEN "hybrid"
                                         ELSE strategyOption[1],
                      vectorOutcome |-> vectorAnswer.outcome]
        /\ qaOut' = ask(isKeywordIndexReady, config, documents, tfidf, reranker, builder,
                        question, strategyOption, useRerankingOption, topKOption,
                        vectorAnswer, llmAnswer)
        /\ UNCHANGED <<conversation, otherThanQA>>

\* POST /api/qa: QAController.askQuestion, through QAService.ask of the
\* initialized service; a message is stored once the pipeline has returned
AskQuestion ==
    \E query \in BodyQueries, llmAnswer \in LlmAnswers :
      \E vectorAnswer \in AskVectorAnswers(Some("vector"), Undefined) :
        /\ ~qaCall.called
        /\ ~lastSearch.called
        /\ qaCall' = [called |-> TRUE, op |-> "/api/qa", invalid |-> InvalidQuery(query),
                      useReranking |-> TRUE, topK |-> Undefined]
        /\ \E result \in {IF InvalidQuery(query) THEN BadRequest
                          ELSE Responded(ask(isKeywordIndexReady, config, documents, tfidf,
                                             reranker, builder, query.text, Some("vector"),
                                             Some(TRUE), Undefined, vectorAnswer,
                                             llmAnswer))} :
              /\ qaOut' = result
              /\ conversation' = IF result.status = 200
                                 THEN Append(conversation,
                                             [query |-> result.question,
                                              answer |-> result.answer,
                                              sources |-> result.sources])
                                 ELSE conversation
        /\ UNCHANGED otherThanQA

\* POST /api/search: QAController.search, through QAService.search(query),
\* whose topK is 10
SearchEndpoint ==
    \E query \in BodyQueries, llmAnswer \in LlmAnswers :
      \E vectorAnswer \in AskVectorAnswers(Some("vector"), Some(10)) :
        /\ ~qaCall.called
        /\ ~lastSearch.called
        /\ qaCall' = [called |-> TRUE, op |-> "/api/search",
                      invalid |-> InvalidQuery(query),
                      useReranking |-> TRUE, topK |-> Some(10)]
        /\ qaOut' = IF InvalidQuery(query) THEN BadRequest
                    ELSE Responded(ask(isKeywordIndexReady, config, documents, tfidf,
                                       reranker, builder, query.text, Some("vector"),
                                       Undefined, Some(10), vectorAnswer, llmAnswer))
        /\ UNCHANGED <<conversation, otherThanQA>>

(***************************************************************************)
(* hybridSearchImpl step by step                                           *)
(*                                                                         *)
(* The body runs to completion up to its await: vectorSearch.search is     *)
(* called and returns a pending promise once it has sent its request,      *)
(* keywordSearch.search then runs synchronously, Promise.all is awaited.   *)
(* The reply to the vector search is handled only while the call waits,    *)
(* and the call resumes once Promise.all has settled.                      *)
(***************************************************************************)
HybridIdle ==
    [pc |-> "idle", query |-> NoText, topK |-> 0, events |-> <<>>,
     vector |-> [state |-> "none", results |-> <<>>],
     keyword |-> [state |-> "none", results |-> <<>>],
     outcome |-> "none", results |-> <<>>]

HybridInit == hybridRun = HybridIdle

\* The topK of the hybrid searches
HybridTopKs == 1..MaxLen

\* hybridSearchImpl(query, topK, options) is entered
HybridEnter ==
    \E query \in Queries, topK \in HybridTopKs :
        /\ hybridRun.pc = "idle"
        /\ ~lastSearch.called
        /\ hybridRun' =
              IF NotReady(isKeywordIndexReady)
              THEN [hybridRun EXCEPT !.pc = "done", !.query = query, !.topK = topK,
                                     !.outcome = "notIndexed"]
              ELSE [hybridRun EXCEPT !.pc = "callVector", !.query = query, !.topK = topK]
        /\ UNCHANGED otherThanHybrid

\* this.vectorSearch.search(query, topK * 2, options.filter): the request
\* leaves, the promise is pending
HybridCallVector ==
    /\ hybridRun.pc = "callVector"
    /\ hybridRun' = [hybridRun EXCEPT !.pc = "callKeyword",
                                      !.vector = [state |-> "pending", results |-> <<>>],
                                      !.events = Append(@, "vectorStarted")]
    /\ UNCHANGED otherThanHybrid

\* Promise.resolve(this.keywordSearch.search(query, topK * 2)): the search
\* runs and returns before the promise is made
HybridCallKeyword ==
    /\ hybridRun.pc = "callKeyword"
    /\ hybridRun' =
          [hybridRun EXCEPT
              !.pc = "await",
              !.keyword = [state |-> "fulfilled",
                           results |-> KeywordSearchCall(documents, tfidf, hybridRun.query,
                                                         hybridRun.topK * 2).results],
              !.events = @ \o <<"keywordStarted", "keywordCompleted">>]
    /\ UNCHANGED otherThanHybrid

\* await Promise.all([...])
HybridAwait ==
    /\ hybridRun.pc = "await"
    /\ hybridRun' = [hybridRun EXCEPT !.pc = "waiting", !.events = Append(@, "awaited")]
    /\ UNCHANGED otherThanHybrid

\* The vector search settles: the store's matches, or a failure of the
\* embedding provider or the store
VectorSettles ==
    \E vectorAnswer \in VectorAnswers(hybridRun.topK * 2) :
        /\ hybridRun.pc = "waiting"
        /\ hybridRun.vector.state = "pending"
        /\ hybridRun' =
              [hybridRun EXCEPT
                  !.vector = [state |-> IF vectorAnswer.outcome = "ok" THEN "fulfilled"
                                        ELSE "rejected",
                              results |-> vectorAnswer.results],
                  !.events = Append(@, "vectorCompleted")]
        /\ UNCHANGED otherThanHybrid

AllSettledKeywordOnly(run) == run.keyword.state = "fulfilled"

\* Promise.all is settled: every promise fulfilled, or one rejected
AllSettled(run) ==
    \/ run.vector.state = "rejected"
    \/ run.keyword.state = "rejected"
    \/ run.vector.state = "fulfilled" /\ run.keyword.state = "fulfilled"

\* The call resumes after the await: this.fusion.fuseResults(vectorResults,
\* keywordResults, topK), or the rejection is thrown on
HybridResume ==
    /\ hybridRun.pc = "waiting"
    /\ AllSettled(hybridRun)
    /\ hybridRun' =
          IF hybridRun.vector.state = "rejected"
          THEN [hybridRun EXCEPT !.pc = "done", !.outcome = "upstream"]
          ELSE [hybridRun EXCEPT
                   !.pc = "done", !.outcome = "ok",
                   !.events = Append(@, "fused"),
                   !.results = fuseResults(config, hybridRun.vector.results,
                                           hybridRun.keyword.results, hybridRun.topK)]
    /\ UNCHANGED otherThanHybrid

(***************************************************************************)
(* EmbeddingsGenerator.generateBatch                                       *)
(***************************************************************************)
MaxRetriesOption == 4   \* largest options.maxRetries a generator is built with

\* options.maxRetries
RetryOptions == {Undefined} \cup {Some(n) : n \in 0..MaxRetriesOption}

\* this.maxRetries = options.maxRetries || 3
EmbedInit ==
    /\ \E option \in RetryOptions :
          embedder = [maxRetries |-> IF option = Undefined \/ option = Some(0) THEN 3
                                     ELSE option[1]]
    /\ embedRun = [pc |-> "idle", texts |-> <<>>, attempt |-> 0, asked |-> 0,
                   delays |-> <<>>, outcome |-> "none", embeddings |-> 0]

\* The texts of a batch: the empty string is left out of the request
EmbedTexts == {NoText, <<"react">>, <<"react", "hooks">>}

EmbedBatches == SeqsUpTo(EmbedTexts, MaxLen)

\* texts.filter(...): the texts that are non-empty strings
RECURSIVE ValidTexts(_)
ValidTexts(texts) ==
    IF Len(texts) = 0 THEN <<>>
    ELSE (IF Head(texts) # NoText THEN <<Head(texts)>> ELSE <<>>) \o ValidTexts(Tail(texts))

\* 2 ** n
RECURSIVE Pow2(_)
Pow2(n) == IF n = 0 THEN 1 ELSE 2 * Pow2(n - 1)

\* generateBatch(texts) up to the for loop
GenerateBatch ==
    \E texts \in EmbedBatches :
        /\ embedRun.pc = "idle"
        /\ embedRun' =
              IF Len(texts) = 0 \/ Len(ValidTexts(texts)) = 0
              THEN [embedRun EXCEPT !.pc = "done", !.texts = texts, !.outcome = "noTexts"]
              ELSE [embedRun EXCEPT !.pc = "attempt", !.texts = ValidTexts(texts)]
        /\ UNCHANGED <<embedder, otherThanEmbed>>

\* if (attempt < this.maxRetries - 1)
WaitsBeforeRetry(attempt, maxRetries) == attempt < maxRetries - 1

\* One pass of the for loop: this.client.embeddings.create(...) answers and
\* the embeddings are returned, or it throws and the catch block runs
EmbedAttempt ==
    \E answered \in BOOLEAN :
        /\ embedRun.pc = "attempt"
        /\ embedRun.attempt < embedder.maxRetries
        /\ embedRun' =
              IF answered
              THEN [embedRun EXCEPT !.pc = "done", !.asked = @ + 1, !.outcome = "ok",
                                    !.embeddings = Len(embedRun.texts)]
              ELSE IF WaitsBeforeRetry(embedRun.attempt, embedder.maxRetries)
              THEN [embedRun EXCEPT !.pc = "backoff", !.asked = @ + 1,
                                    !.delays = Append(@, Pow2(embedRun.attempt) * 1000)]
              ELSE [embedRun EXCEPT !.asked = @ + 1, !.attempt = @ + 1]
        /\ UNCHANGED <<embedder, otherThanEmbed>>

\* The timer of the backoff fires; attempt++
BackoffElapsed ==
    /\ embedRun.pc = "backoff"
    /\ embedRun' = [embedRun EXCEPT !.pc = "attempt", !.attempt = @ + 1]
    /\ UNCHANGED <<embedder, otherThanEmbed>>

\* The loop has ended: throw new Error(`Failed to generate embeddings after ...`)
EmbedGiveUp ==
    /\ embedRun.pc = "attempt"
    /\ embedRun.attempt >= embedder.maxRetries
    /\ embedRun' = [embedRun EXCEPT !.pc = "done", !.outcome = "upstream"]
    /\ UNCHANGED <<embedder, otherThanEmbed>>

(***************************************************************************)
(* OpenAIClient.generateStreamingResponse                                  *)
(***************************************************************************)
\* chunk.choices[0]?.delta?.content || '' of the chunks a provider sends:
\* a chunk may carry no text
Deltas == {NoText, <<"Hooks">>, <<" hold", " state">>}

\* The chunks of one stream, in the order the provider produces them
Streams == SeqsUpTo(Deltas, MaxLen + 1)

StreamIdle ==
    [pc |-> "idle", produced |-> <<>>, next |-> 1, fullAnswer |-> NoText,
     delivered |-> <<>>, outcome |-> "none", answer |-> NoText]

StreamInit == streamRun = StreamIdle

AnswerAfterKeepsLast(fullAnswer, delta) == delta

\* fullAnswer += delta
AnswerAfter(fullAnswer, delta) == fullAnswer \o delta

\* await this.client.chat.completions.create({..., stream: true}): the stream
\* opens, or the provider refuses
StreamOpen ==
    \E produced \in Streams, opened \in BOOLEAN :
        /\ streamRun.pc = "idle"
        /\ streamRun' = IF opened
                        THEN [streamRun EXCEPT !.pc = "streaming", !.produced = produced]
                        ELSE [streamRun EXCEPT !.pc = "done", !.outcome = "upstream"]
        /\ UNCHANGED otherThanStream

\* One pass of the for await loop: a delta with text is added to fullAnswer
\* and handed to onChunk
StreamChunk ==
    /\ streamRun.pc = "streaming"
    /\ streamRun.next <= Len(streamRun.produced)
    /\ \E delta \in {streamRun.produced[streamRun.next]} :
          streamRun' =
              IF delta # NoText
              THEN [streamRun EXCEPT
                       !.next = @ + 1,
                       !.fullAnswer = AnswerAfter(@, delta),
                       !.delivered = Append(@, [content |-> delta, done |-> FALSE])]
              ELSE [streamRun EXCEPT !.next = @ + 1]
    /\ UNCHANGED otherThanStream

\* The stream breaks: the for await loop throws
StreamBreaks ==
    /\ streamRun.pc = "streaming"
    /\ streamRun' = [streamRun EXCEPT !.pc = "done", !.outcome = "upstream"]
    /\ UNCHANGED otherThanStream

\* The stream has ended: onChunk({content: '', done: true}), then the answer
\* is returned
StreamEnd ==
    /\ streamRun.pc = "streaming"
    /\ streamRun.next > Len(streamRun.produced)
    /\ streamRun' = [streamRun EXCEPT
                        !.pc = "done", !.outcome = "ok",
                        !.delivered = Append(@, [content |-> NoText, done |-> TRUE]),
                        !.answer = streamRun.fullAnswer]
    /\ UNCHANGED otherThanStream

(***************************************************************************)
(* QAController.askQuestion with the conversation repository               *)
(*                                                                         *)
(* A request runs up to its first await, the call of qaService.ask.  When   *)
(* the pipeline has settled the handler goes on: a result is stored by      *)
(* conversationService.addMessage, whose repository.save assigns the Map    *)
(* before the handler is suspended again, and the answer is sent once the   *)
(* await has returned; a throw is answered with status 500.                 *)
(***************************************************************************)
MaxRequests == 3   \* /api/qa requests that arrive

RequestIds == 1..MaxRequests

\* `msg_${Date.now()}_${Math.random().toString(36).substr(2, 9)}`: nothing
\* keeps the ids of two messages apart
MessageIds == {"msg_1", "msg_2"}

\* req.body.query of the requests
RequestQueries ==
    {q \in BodyQueries : q.kind = "absent" \/ q.text \in {NoText, <<"hooks">>}}

NewRequest == [pc |-> "new", status |-> 0, saves |-> 0, id |-> ""]

HistoryInit ==
    /\ requests = [r \in RequestIds |-> NewRequest]
    /\ repository = <<>>
    /\ savedSinceClear = {}

RepositoryAppend(messages, message) == Append(messages, message)

\* save(message): this.messages.set(message.id, message)
RepositorySave(messages, message) == MapSet(messages, message.id, message)

\* count(): this.messages.size
RepositoryCount(messages) == Len(messages)

\* POST /api/qa arrives: the query is validated, then qaService.ask is
\* called and awaited
ReceiveRequest(r) ==
    \E query \in RequestQueries :
        /\ requests[r].pc = "new"
        /\ requests' = [requests EXCEPT ![r] =
                           IF InvalidQuery(query)
                           THEN [@ EXCEPT !.pc = "done", !.status = 400]
                           ELSE [@ EXCEPT !.pc = "pipeline"]]
        /\ UNCHANGED <<repository, savedSinceClear, otherThanHistory>>

\* qaService.ask throws (the service is not initialized, the search or the
\* language model fails): the catch answers with status 500
PipelineThrows(r) ==
    /\ requests[r].pc = "pipeline"
    /\ requests' = [requests EXCEPT ![r] = [@ EXCEPT !.pc = "done", !.status = 500]]
    /\ UNCHANGED <<repository, savedSinceClear, otherThanHistory>>

\* qaService.ask returns its result with a fresh id: the handler builds the
\* message and conversationService.addMessage saves it
PipelineReturns(r) ==
    \E id \in MessageIds :
        /\ requests[r].pc = "pipeline"
        /\ repository' = RepositorySave(repository, [id |-> id, request |-> r])
        /\ savedSinceClear' = savedSinceClear \cup {id}
        /\ requests' = [requests EXCEPT ![r] =
                           [@ EXCEPT !.pc = "saved", !.id = id, !.saves = @ + 1]]
        /\ UNCHANGED otherThanHistory

\* The await of addMessage returns: res.json({id, query, answer, ...})
Respond(r) ==
    /\ requests[r].pc = "saved"
    /\ requests' = [requests EXCEPT ![r] = [@ EXCEPT !.pc = "done", !.status = 200]]
    /\ UNCHANGED <<repository, savedSinceClear, otherThanHistory>>

\* DELETE /api/history: conversationService.clearHistory(), messages.clear()
ClearHistory ==
    /\ repository # <<>>
    /\ repository' = <<>>
    /\ savedSinceClear' = {}
    /\ UNCHANGED <<requests, otherThanHistory>>

(***************************************************************************)
(* EmbeddingsGenerator.generateEmbeddings and embedChunks                  *)
(*                                                                         *)
(* A text is a sequence of words; white space is not kept, so trim() is    *)
(* the identity and the empty and the blank string are NoText.  A null     *)
(* byte is the word Nul.  An embedding is named after the text the         *)
(* provider computed it for.                                               *)
(***************************************************************************)
Nul == "\\0"

\* The texts handed to generateEmbeddings and the contents of the chunks
GenerateTexts == {NoText, <<Nul>>, <<"react">>, <<"hooks", Nul>>}

GenerateLists == SeqsUpTo(GenerateTexts, MaxLen + 1)

\* text.replace(/\0/g, '')
RECURSIVE RemoveNul(_)
RemoveNul(text) ==
    IF Len(text) = 0 THEN <<>>
    ELSE (IF Head(text) = Nul THEN <<>> ELSE <<Head(text)>>) \o RemoveNul(Tail(text))

\* The embedding the provider answers for an input
EmbeddingOf(input) == [of |-> input]

\* generateBatch(texts): the texts that are empty are filtered out, the rest
\* is cleaned and sent; response.data.map((item) => item.embedding) holds one
\* embedding for each input of the request
generateBatch(texts, answered) ==
    IF Len(texts) = 0 THEN [outcome |-> "noTexts", embeddings |-> <<>>]
    ELSE TheOne({
            IF Len(validTexts) = 0 THEN [outcome |-> "noTexts", embeddings |-> <<>>]
            ELSE IF ~answered THEN [outcome |-> "upstream", embeddings |-> <<>>]
            ELSE [outcome |-> "ok",
                  embeddings |-> [i \in 1..Len(validTexts) |->
                                     EmbeddingOf(RemoveNul(validTexts[i]))]]
            : validTexts \in {ValidTexts(texts)}})

\* The for loop of generateEmbeddings from text i on (i 0-based)
RECURSIVE BatchLoop(_, _, _, _, _)
BatchLoop(texts, size, answered, i, allEmbeddings) ==
    IF i >= Len(texts) THEN [outcome |-> "ok", embeddings |-> allEmbeddings]
    ELSE TheOne({
            IF batchEmbeddings.outcome # "ok" THEN batchEmbeddings
            ELSE BatchLoop(texts, size, answered, i + size,
                           allEmbeddings \o batchEmbeddings.embeddings)
            : batchEmbeddings \in
                {generateBatch(SubSeq(texts, i + 1, Min(i + size, Len(texts))), answered)}})

\* generateEmbeddings(texts)
generateEmbeddings(texts, size, answered) == BatchLoop(texts, size, answered, 0, <<>>)

\* chunks.filter((chunk) => chunk.content.trim())
RECURSIVE ValidChunks(_)
ValidChunks(chunks) ==
    IF Len(chunks) = 0 THEN <<>>
    ELSE (IF Head(chunks).content # NoText THEN <<Head(chunks)>> ELSE <<>>)
         \o ValidChunks(Tail(chunks))

\* embedChunks(chunks): embeddings[index] is undefined past the end
embedChunks(chunks, size, answered) ==
    TheOne({
        IF Len(validChunks) = 0 THEN [outcome |-> "ok", chunks |-> <<>>]
        ELSE TheOne({
                IF generated.outcome # "ok" THEN [outcome |-> generated.outcome, chunks |-> <<>>]
                ELSE [outcome |-> "ok",
                      chunks |-> [index \in 1..Len(validChunks) |->
                                    [embedding |->
                                        IF index <= Len(generated.embeddings)
                                        THEN Some(generated.embeddings[index])
                                        ELSE Undefined]
                                    @@ validChunks[index]]]
                : generated \in
                    {generateEmbeddings([i \in 1..Len(validChunks) |->
                                            RemoveNul(validChunks[i].content)],
                                        size, answered)}})
        : validChunks \in {ValidChunks(chunks)}})

\* new EmbeddingsGenerator({apiKey}): batches of 100
GenerateDefaultInit ==
    /\ batchSize = 100
    /\ genCall = NoCall
    /\ genOut = NoCall

\* new EmbeddingsGenerator({apiKey, batchSize})
GenerateInit ==
    /\ batchSize \in (1..MaxLen) \cup {100}
    /\ genCall = NoCall
    /\ genOut = NoCall

\* generator.generateEmbeddings(texts); the provider answers every request
\* of the call or fails them
GenerateEmbeddings ==
    \E texts \in GenerateLists, answered \in BOOLEAN :
        /\ ~genCall.called
        /\ genCall' = [called |-> TRUE, op |-> "generateEmbeddings", texts |-> texts]
        /\ genOut' = generateEmbeddings(texts, batchSize, answered)
        /\ UNCHANGED <<batchSize, otherThanGenerate>>

\* generator.embedChunks(chunks), chunk i having the id i
EmbedChunks ==
    \E texts \in GenerateLists, answered \in BOOLEAN :
        /\ ~genCall.called
        /\ genCall' = [called |-> TRUE, op |-> "embedChunks", texts |-> texts]
        /\ genOut' = embedChunks([i \in 1..Len(texts) |-> [id |-> i, content |-> texts[i]]],
                                 batchSize, answered)
        /\ UNCHANGED <<batchSize, otherThanGenerate>>

(***************************************************************************)
(* Specifications                                                          *)
(***************************************************************************)
MmrInit == mmrCall = NoCall /\ mmrOut = <<>>

RelInit == relCall = NoCall /\ relOut = <<>>

\* new EmbeddingsGenerator({apiKey})
EmbedDefaultInit ==
    /\ embedder = [maxRetries |-> 3]
    /\ embedRun = [pc |-> "idle", texts |-> <<>>, attempt |-> 0, asked |-> 0,
                   delays |-> <<>>, outcome |-> "none", embeddings |-> 0]

\* The other components as their constructors leave them
ComponentsInit ==
    DiversityInit /\ RerankerInit /\ QAInit /\ HybridInit /\ StreamInit /\ HistoryInit

LaterInit == ComponentsInit /\ EmbedDefaultInit /\ GenerateDefaultInit

\* new HybridSearch({fusion: {vectorWeight, keywordWeight}}): the search
\* front with its own SearchFusion and an empty KeywordSearch.
Init ==
    /\ FusionInit
    /\ KeywordInit
    /\ MmrInit /\ RelInit /\ LaterInit /\ PromptInit

Next ==
    \/ IndexDocuments
    \/ KeywordClear
    \/ KeywordSearchDirect
    \/ Search
    \/ Return

Spec == Init /\ [][Next]_vars

\* A SearchFusion on its own: constructed, then asked to fuse.
InitFusion == FusionInit /\ KeywordInit /\ MmrInit /\ RelInit /\ LaterInit /\ PromptInit

NextFusion == FuseResults

SpecFusion == InitFusion /\ [][NextFusion]_vars

\* The KeywordSearch of a HybridSearch, its caller comparing the answers
\* of successive searches
InitKeyword == FusionDefaultInit /\ KeywordInit /\ MmrInit /\ RelInit /\ LaterInit /\ PromptInit

NextKeyword == IndexDocuments \/ KeywordClear \/ KeywordSearchDirect \/ ReturnKept

SpecKeyword == InitKeyword /\ [][NextKeyword]_vars

\* An MMRReranker on its own
InitMMR == FusionDefaultInit /\ KeywordInit /\ MmrInit /\ RelInit /\ LaterInit /\ PromptInit

NextMMR == MmrRerank

SpecMMR == InitMMR /\ [][NextMMR]_vars

\* A RelevanceReranker on its own
InitRel == FusionDefaultInit /\ KeywordInit /\ MmrInit /\ RelInit /\ LaterInit /\ PromptInit

NextRel == RelevanceRerank

SpecRel == InitRel /\ [][NextRel]_vars

\* A DiversityReranker on its own
InitDiversity ==
    FusionDefaultInit /\ KeywordInit /\ MmrInit /\ RelInit /\ LaterInit /\ PromptInit

NextDiversity == SetSimilarityThreshold \/ SetSourceWeighting \/ DiversityRerank

SpecDiversity == InitDiversity /\ [][NextDiversity]_vars

\* A Reranker on its own
InitReranker ==
    FusionDefaultInit /\ KeywordInit /\ MmrInit /\ RelInit /\ LaterInit /\ PromptInit

NextReranker == SetStrategy \/ Rerank \/ RerankPipeline

SpecReranker == InitReranker /\ [][NextReranker]_vars

\* new PromptBuilder({maxContextTokens, maxResultsInContext}) of a QAEngine:
\* room for every block, for one block, or for one result
QAPromptInit ==
    /\ \E limits \in {<<3000, 10>>, <<MaxBudget, 10>>, <<3000, 1>>} :
          builder = [maxContextTokens |-> limits[1], maxResultsInContext |-> limits[2],
                     template |-> DefaultTemplate]
    /\ promptCall = NoCall
    /\ prompt = NoCall

\* A QAEngine with its HybridSearch, Reranker and PromptBuilder, and the
\* handlers in front of it
InitQA ==
    FusionDefaultInit /\ KeywordInit /\ MmrInit /\ RelInit /\ LaterInit /\ QAPromptInit

\* The engine is set up, then a question is asked
NextQA ==
    \/ ~qaCall.called /\ IndexDocuments
    \/ ~qaCall.called /\ Return
    \/ ~qaCall.called /\ SetStrategy
    \/ Ask
    \/ AskQuestion
    \/ SearchEndpoint

SpecQA == InitQA /\ [][NextQA]_vars

\* One hybrid search over an index built before it
InitHybrid ==
    FusionDefaultInit /\ KeywordInit /\ MmrInit /\ RelInit /\ LaterInit /\ PromptInit

NextHybrid ==
    \/ hybridRun.pc = "idle" /\ IndexDocuments
    \/ hybridRun.pc = "idle" /\ Return
    \/ HybridEnter
    \/ HybridCallVector
    \/ HybridCallKeyword
    \/ HybridAwait
    \/ VectorSettles
    \/ HybridResume

SpecHybrid == InitHybrid /\ [][NextHybrid]_vars

\* An EmbeddingsGenerator on its own
InitEmbed ==
    /\ FusionDefaultInit /\ KeywordInit /\ MmrInit /\ RelInit /\ ComponentsInit /\ PromptInit
    /\ EmbedInit /\ GenerateDefaultInit

NextEmbed == GenerateBatch \/ EmbedAttempt \/ BackoffElapsed \/ EmbedGiveUp

SpecEmbed == InitEmbed /\ [][NextEmbed]_vars

\* One streamed answer of an OpenAIClient
InitStream ==
    FusionDefaultInit /\ KeywordInit /\ MmrInit /\ RelInit /\ LaterInit /\ PromptInit

NextStream == StreamOpen \/ StreamChunk \/ StreamBreaks \/ StreamEnd

SpecStream == InitStream /\ [][NextStream]_vars

\* A configured PromptBuilder on its own
InitPrompt == FusionDefaultInit /\ KeywordInit /\ MmrInit /\ RelInit /\ LaterInit /\ PromptConfiguredInit

NextPrompt == BuildPrompt

SpecPrompt == InitPrompt /\ [][NextPrompt]_vars

\* The /api/qa handler and the history clears, interleaved
InitHistory == FusionDefaultInit /\ KeywordInit /\ MmrInit /\ RelInit /\ LaterInit /\ PromptInit

NextHistory ==
    \/ \E r \in RequestIds : ReceiveRequest(r)
    \/ \E r \in RequestIds : PipelineThrows(r)
    \/ \E r \in RequestIds : PipelineReturns(r)
    \/ \E r \in RequestIds : Respond(r)
    \/ ClearHistory

SpecHistory == InitHistory /\ [][NextHistory]_vars

\* An EmbeddingsGenerator asked for the embeddings of texts and of chunks
InitGenerate ==
    /\ FusionDefaultInit /\ KeywordInit /\ MmrInit /\ RelInit /\ ComponentsInit /\ PromptInit
    /\ EmbedDefaultInit /\ GenerateInit

NextGenerate == GenerateEmbeddings \/ EmbedChunks

SpecGenerate == InitGenerate /\ [][NextGenerate]_vars

(***************************************************************************)
(* Claims about SearchFusion                                               *)
(***************************************************************************)
UniqueIds(list) == \A i, j \in 1..Len(list) : i # j => list[i].id # list[j].id

\* The term a list gives the candidate at 1-based position pos: weight / (k + pos)
RankTerm(weight, pos) == Rat(weight.n, weight.d * (config.k + pos))

\* The sum of the terms of the positions of a list that hold id, from position i on
RECURSIVE TermsOf(_, _, _, _)
TermsOf(list, weight, id, i) ==
    IF i > Len(list) THEN RatInt(0)
    ELSE RatAdd(IF list[i].id = id THEN RankTerm(weight, i) ELSE RatInt(0),
                TermsOf(list, weight, id, i + 1))

\* Last position of id in a list, 0 when absent
RECURSIVE LastIndex(_, _, _)
LastIndex(list, id, i) ==
    IF i = 0 THEN 0 ELSE IF list[i].id = id THEN i ELSE LastIndex(list, id, i - 1)

CallIds == IdsOf(fuseCall.vectorResults) \cup IdsOf(fuseCall.keywordResults)

InBothLists(id) == id \in IdsOf(fuseCall.vectorResults) \cap IdsOf(fuseCall.keywordResults)

FusedScoreOf(id) == LET i == MapIndex(fused, id, 1) IN fused[i].score

\* C1: with ids unique inside each input list and topK at least the number of
\* distinct ids, every candidate is returned with the score
\* vectorWeight/(k+rV+1) + keywordWeight/(k+rK+1), a candidate of only one
\* list with that list's single term.
C1_FusedScoreIsSumOfRankTerms ==
    (/\ fuseCall.called
     /\ UniqueIds(fuseCall.vectorResults)
     /\ UniqueIds(fuseCall.keywordResults)
     /\ fuseCall.topK >= Cardinality(CallIds))
    => \A id \in CallIds :
          /\ MapIndex(fused, id, 1) # 0
          /\ FusedScoreOf(id) =
                RatAdd(TermsOf(fuseCall.vectorResults, config.vectorWeight, id, 1),
                       TermsOf(fuseCall.keywordResults, config.keywordWeight, id, 1))

\* A call with unique ids in which one candidate is in both lists, at
\* different ranks, and another in one list only, all returned.
C1_Witness ==
    /\ fuseCall.called
    /\ UniqueIds(fuseCall.vectorResults)
    /\ UniqueIds(fuseCall.keywordResults)
    /\ fuseCall.topK >= Cardinality(CallIds)
    /\ RatLT(RatInt(0), config.vectorWeight)
    /\ RatLT(RatInt(0), config.keywordWeight)
    /\ \E id \in CallIds :
          /\ InBothLists(id)
          /\ MapIndex(fuseCall.vectorResults, id, 1) # MapIndex(fuseCall.keywordResults, id, 1)
    /\ \E id \in CallIds : ~InBothLists(id)
    /\ Len(fused) = Cardinality(CallIds)

\* The fused score fuseResults gives an id whatever the lists hold: the term
\* of its last vector position plus the terms of all its keyword positions.
FullScore(id) ==
    LET last == LastIndex(fuseCall.vectorResults, id, Len(fuseCall.vectorResults))
    IN  RatAdd(IF last = 0 THEN RatInt(0) ELSE RankTerm(config.vectorWeight, last),
               TermsOf(fuseCall.keywordResults, config.keywordWeight, id, 1))

IsScenarioA ==
    /\ fuseCall.called
    /\ IdSeq(fuseCall.vectorResults) = ScenarioVector
    /\ IdSeq(fuseCall.keywordResults) = ScenarioKeyword
    /\ fuseCall.topK = 3
    /\ config = [k |-> 60, vectorWeight |-> Rat(3, 5), keywordWeight |-> Rat(2, 5)]

\* C10: fuseResults returns min(topK, number of distinct ids) candidates with
\* pairwise distinct ids, in non-increasing order of fused score, none of the
\* omitted candidates scoring above a returned one; scenario A gives b, a,
\* then c or d.
C10_FusedIsTopKByScore ==
    fuseCall.called =>
        /\ Len(fused) = Min(fuseCall.topK, Cardinality(CallIds))
        /\ \A i, j \in 1..Len(fused) : i # j => fused[i].id # fused[j].id
        /\ \A i \in 1..Len(fused) :
              fused[i].id \in CallIds /\ fused[i].score = FullScore(fused[i].id)
        /\ \A i, j \in 1..Len(fused) : i < j => RatLE(fused[j].score, fused[i].score)
        /\ \A id \in CallIds \ IdsOf(fused) :
              \A i \in 1..Len(fused) : RatLE(FullScore(id), fused[i].score)
        /\ IsScenarioA => IdSeq(fused) \in {<<"b", "a", "c">>, <<"b", "a", "d">>}

\* Scenario A was run, and so was a call that had to omit a candidate.
C10_Witness ==
    /\ IsScenarioA
    /\ IdSeq(fused) = <<"b", "a", "c">>
    /\ Cardinality(CallIds) > fuseCall.topK

(***************************************************************************)
(* Claims about KeywordSearch and HybridSearch                             *)
(***************************************************************************)
IsKeywordSearchDirect == lastSearch.called /\ lastSearch.op = "KeywordSearch.search"

IsHybridSearch == lastSearch.called /\ lastSearch.op = "HybridSearch.search"

\* C5 as stated: KeywordSearch.search on an instance on which indexDocuments
\* was never called fails with a not-indexed error.
C5_NeverIndexedSearchFails ==
    (IsKeywordSearchDirect /\ ~lastSearch.indexedBefore)
        => lastSearch.outcome = "notIndexed"

\* C5 as amended: KeywordSearch.search on an instance on which indexDocuments
\* was never called returns an empty result list and raises no error.
C5_NeverIndexedSearchReturnsEmpty ==
    (IsKeywordSearchDirect /\ ~lastSearch.indexedBefore)
        => (lastSearch.outcome = "ok" /\ lastSearch.results = <<>>)

\* A search ran on a KeywordSearch that was never indexed.
C5_Witness ==
    /\ IsKeywordSearchDirect
    /\ ~lastSearch.indexedBefore
    /\ lastSearch.query = <<"hooks">>

C7_SearchSeesWholeIndex ==
    (IsKeywordSearchDirect \/ IsHybridSearch) => lastSearch.sawConsistentIndex

\* C9: the weights SearchFusion scores with, and HybridSearch.search reports
\* in its metrics, sum to 1 and keep the ratio of the configured weights.
C9_WeightsNormalized ==
    /\ RatAdd(config.vectorWeight, config.keywordWeight) = RatInt(1)
    /\ RatMul(config.vectorWeight, fusionArgs.keywordWeight)
          = RatMul(config.keywordWeight, fusionArgs.vectorWeight)
    /\ (IsHybridSearch /\ lastSearch.outcome = "ok") =>
          /\ lastSearch.searchMetrics.vectorWeight = config.vectorWeight
          /\ lastSearch.searchMetrics.keywordWeight = config.keywordWeight
          /\ RatAdd(lastSearch.searchMetrics.vectorWeight,
                    lastSearch.searchMetrics.keywordWeight) = RatInt(1)

\* A search reported its metrics on a fusion configured with weights that do
\* not sum to 1.
C9_Witness ==
    /\ RatAdd(fusionArgs.vectorWeight, fusionArgs.keywordWeight) # RatInt(1)
    /\ fusionArgs.vectorWeight # fusionArgs.keywordWeight
    /\ RatLT(RatInt(0), fusionArgs.keywordWeight)
    /\ IsHybridSearch
    /\ lastSearch.strategy = "hybrid"
    /\ lastSearch.outcome = "ok"
    /\ Len(lastSearch.results) > 1

\* The block tokens of all the candidates of a list, summed
RECURSIVE CumulativeBlockTokens(_, _)
CumulativeBlockTokens(results, includeMetadata) ==
    IF Len(results) = 0 THEN 0
    ELSE countTokens(formatResultAsContext(results[1], includeMetadata))
             + CumulativeBlockTokens(Tail(results), includeMetadata)

CallIncludesMetadata ==
    IF promptCall.includeMetadata = Undefined THEN TRUE ELSE promptCall.includeMetadata[1]

\* C2: after every buildPrompt call the text substituted for {{CONTEXT}}
\* counts at most maxContextTokens tokens, and truncated is true whenever the
\* block tokens of the offered list sum to more than maxContextTokens.
C2_ContextWithinBudget ==
    promptCall.called =>
        /\ countTokens(promptCall.contextString) <= builder.maxContextTokens
        /\ (CumulativeBlockTokens(promptCall.searchResults, CallIncludesMetadata)
                > builder.maxContextTokens) => prompt.truncated

\* Some candidate of offered is not in used
Missing(offered, used) ==
    \E i \in 1..Len(offered) : \A j \in 1..Len(used) : used[j] # offered[i]

\* C3 as stated: truncated is true exactly when a candidate of the offered
\* searchResults is missing from contextUsed, whatever the length of the
\* offered list.
C3_TruncatedIffOfferedMissing ==
    promptCall.called =>
        (prompt.truncated <=> Missing(promptCall.searchResults, prompt.contextUsed))

\* C3 amended: truncated is true exactly when one of the first
\* maxResultsInContext candidates of the offered searchResults is missing
\* from contextUsed.
C3_TruncatedIffCountedMissing ==
    promptCall.called =>
        (prompt.truncated <=>
            Missing(Slice(promptCall.searchResults, builder.maxResultsInContext),
                    prompt.contextUsed))

\* A call offered more candidates than maxResultsInContext, all of the
\* counted ones included: candidates are missing and truncated is false
C3_Witness ==
    /\ promptCall.called
    /\ builder.maxResultsInContext >= 1
    /\ Len(promptCall.searchResults) > builder.maxResultsInContext
    /\ Len(prompt.contextUsed) = builder.maxResultsInContext
    /\ ~prompt.truncated


\* C11: KeywordSearch.search leaves documents and the term statistics as
\* they were, and a call that repeats the call before it (same query, same
\* topK, no indexDocuments or clear in between) returns the same ids in the
\* same order with the same scores.
C11_KeywordSearchRepeatable ==
    [][(~lastSearch.called /\ lastSearch'.called
            /\ lastSearch'.op = "KeywordSearch.search") =>
          /\ documents' = documents
          /\ tfidf' = tfidf
          /\ lastSearch'.repeats =>
                /\ lastSearch'.outcome = lastSearch.outcome
                /\ lastSearch'.results = lastSearch.results]_vars

\* A search of an index of two documents repeated, both documents found
C11_Witness ==
    /\ IsKeywordSearchDirect
    /\ lastSearch.repeats
    /\ Len(lastSearch.results) = 2

\* The places in the list given to DiversityReranker.rerank of the
\* candidates admitted ahead of place i
AdmittedBefore(i) ==
    {j \in 1..(i - 1) : divCall.results[j].id \in IdsOf(divOut)}

IsAdmitted(i) == divCall.results[i].id \in IdsOf(divOut)

\* The loop reached place i: topK was not yet filled
ReachedByLoop(i) ==
    \/ divCall.topK = Undefined
    \/ divCall.topK[1] = 0
    \/ Cardinality(AdmittedBefore(i)) < divCall.topK[1]

SimilarityAt(i, j) == DiversityCalculateSimilarity(divCall.results[i], divCall.results[j])

SameChunk(a, b) ==
    /\ a.metadata.source = b.metadata.source
    /\ a.metadata.chunkIndex = b.metadata.chunkIndex

\* C20: two candidates of the same source and chunkIndex have similarity 1,
\* and for every threshold setSimilarityThreshold accepts the output of
\* rerank holds no two candidates of the same source and chunkIndex.
C20_NoTwoOfSameChunk ==
    /\ \A a, b \in Candidates :
          SameChunk(a, b) => DiversityCalculateSimilarity(a, b) = RatInt(1)
    /\ ~ThresholdRejected(diversity.similarityThreshold)
    /\ divCall.called =>
          \A i, j \in 1..Len(divOut) : i # j => ~SameChunk(divOut[i], divOut[j])

\* The score of the candidate of this id in the list the caller passed in
PassedInScore(id) ==
    rerankCall.results[CHOOSE i \in 1..Len(rerankCall.results) :
                           rerankCall.results[i].id = id].score

\* C14: every candidate returned by Reranker.rerank, and every candidate of
\* the final output of rerankPipeline, carries originalScore equal to the
\* score the candidate of the same id had in the list the caller passed in.
C14_OriginalScorePreserved ==
    rerankCall.called =>
        \A i \in 1..Len(rerankOut.results) :
            /\ "originalScore" \in DOMAIN rerankOut.results[i]
            /\ rerankOut.results[i].originalScore
                  = PassedInScore(rerankOut.results[i].id)

\* C15: for every strategy and every topK >= 0 passed to rerank the output
\* has at most min(topK, input length) candidates.
C15_AtMostTopK ==
    (rerankCall.called /\ rerankCall.op = "rerank" /\ rerankCall.topK # Undefined) =>
        Len(rerankOut.results) <= Min(rerankCall.topK[1], Len(rerankCall.results))

\* C12: in every QAEngine.ask result, sources is the one-to-one,
\* order-preserving projection of exactly the candidates placed in the prompt
\* context: |sources| = |contextUsed| <= |searchResults|, and a candidate the
\* token budget or the count limit kept out of the prompt has no citation.
C12_SourcesAreContextUsed ==
    (qaCall.called /\ qaOut.outcome = "ok") =>
        /\ Len(qaOut.sources) = Len(qaOut.contextUsed)
        /\ Len(qaOut.contextUsed) <= Len(qaOut.searchResults)
        /\ \A i \in 1..Len(qaOut.contextUsed) :
              /\ qaOut.contextUsed[i] = qaOut.searchResults[i]
              /\ qaOut.sources[i].source = qaOut.contextUsed[i].metadata.source
              /\ qaOut.sources[i].title = qaOut.contextUsed[i].metadata.title
              /\ qaOut.sources[i].heading = qaOut.contextUsed[i].metadata.heading
              /\ qaOut.sources[i].chunkIndex = qaOut.contextUsed[i].metadata.chunkIndex

\* ask returned with a candidate in the prompt and another kept out of it
C12_Witness ==
    /\ qaCall.called
    /\ qaCall.op = "QAEngine.ask"
    /\ qaOut.outcome = "ok"
    /\ Len(qaOut.contextUsed) = 1
    /\ Len(qaOut.searchResults) = 2
    /\ Len(qaOut.sources) = 1

EventAt(name) ==
    IF \E i \in 1..Len(hybridRun.events) : hybridRun.events[i] = name
    THEN CHOOSE i \in 1..Len(hybridRun.events) : hybridRun.events[i] = name
    ELSE 0

\* C13: under the hybrid strategy the vector search and the keyword search
\* are both started before either result is awaited, and fuseResults is
\* invoked only after both have completed, never on one list alone.
C13_BothStartedThenFused ==
    /\ EventAt("awaited") > 0 =>
          /\ 0 < EventAt("vectorStarted") /\ EventAt("vectorStarted") < EventAt("awaited")
          /\ 0 < EventAt("keywordStarted") /\ EventAt("keywordStarted") < EventAt("awaited")
    /\ EventAt("fused") > 0 =>
          /\ 0 < EventAt("awaited") /\ EventAt("awaited") < EventAt("fused")
          /\ 0 < EventAt("vectorCompleted") /\ EventAt("vectorCompleted") < EventAt("fused")
          /\ 0 < EventAt("keywordCompleted") /\ EventAt("keywordCompleted") < EventAt("fused")
          /\ hybridRun.vector.state = "fulfilled"
          /\ hybridRun.keyword.state = "fulfilled"

\* A hybrid search fused a non-empty vector list with a non-empty keyword list
C13_Witness ==
    /\ hybridRun.pc = "done"
    /\ hybridRun.outcome = "ok"
    /\ EventAt("fused") > 0
    /\ Len(hybridRun.vector.results) > 0
    /\ Len(hybridRun.keyword.results) > 0
    /\ Len(hybridRun.results) > 0

\* C17: when the provider keeps failing, EmbeddingsGenerator retries the call
\* up to 3 times after the first attempt, waiting 1s, 2s and 4s before the
\* successive retries, and only then surfaces an upstream error; a call that
\* succeeds on any attempt returns without further attempts.
C17_ThreeRetriesWithBackoff ==
    /\ (embedRun.pc = "done" /\ embedRun.outcome = "upstream" /\ embedder.maxRetries = 3) =>
          (embedRun.asked = 4 /\ embedRun.delays = <<1000, 2000, 4000>>)
    /\ (embedRun.pc = "done" /\ embedRun.outcome = "ok") =>
          (embedRun.asked = embedRun.attempt + 1 /\ Len(embedRun.delays) = embedRun.attempt)

\* The deltas with text among the first n chunks of the stream, in order
RECURSIVE TextDeltas(_, _)
TextDeltas(produced, n) ==
    IF n = 0 THEN <<>>
    ELSE TextDeltas(produced, n - 1)
         \o (IF produced[n] # NoText THEN <<produced[n]>> ELSE <<>>)

\* The contents of the chunks, concatenated
RECURSIVE ConcatContents(_)
ConcatContents(chunks) ==
    IF Len(chunks) = 0 THEN NoText
    ELSE Head(chunks).content \o ConcatContents(Tail(chunks))

\* C18: the callback receives the text deltas in the order the provider
\* produced them, each with done = false, followed by exactly one final chunk
\* with done = true that comes after every delta, and the concatenation of
\* the delivered contents equals the returned answer.
C18_OrderedDeltasThenDone ==
    LET chunks == streamRun.delivered
        deltas == {i \in 1..Len(chunks) : ~chunks[i].done}
    IN  /\ \A i \in 1..Len(chunks) : chunks[i].done => i = Len(chunks)
        /\ Cardinality(deltas) <= Len(TextDeltas(streamRun.produced, Len(streamRun.produced)))
        /\ \A i \in deltas :
              chunks[i].content = TextDeltas(streamRun.produced, Len(streamRun.produced))[i]
        /\ (streamRun.pc = "done" /\ streamRun.outcome = "ok") =>
              /\ Len(chunks) > 0
              /\ chunks[Len(chunks)].done
              /\ Cardinality(deltas)
                    = Len(TextDeltas(streamRun.produced, Len(streamRun.produced)))
              /\ ConcatContents(chunks) = streamRun.answer

\* A stream of two text deltas and a chunk without text was delivered whole
C18_Witness ==
    /\ streamRun.pc = "done"
    /\ streamRun.outcome = "ok"
    /\ Len(streamRun.produced) = 3
    /\ Len(streamRun.delivered) = 3
    /\ streamRun.delivered[1].content # streamRun.delivered[2].content

\* Position of the candidate of this id in the list handed to rerank
MmrInputAt(id) == CHOOSE i \in 1..Len(mmrCall.results) : mmrCall.results[i].id = id

\* Whether output position j holds a candidate maximising the MMR score
\* among those not selected before it, the earliest of the input on a tie
MmrStepIsArgmax(j) ==
    LET before == SubSeq(mmrOut, 1, j - 1)
        picked == mmrCall.results[MmrInputAt(mmrOut[j].id)]
        pickedScore == MmrScore(mmrCall.lambda, picked, before)
    IN  \A i \in 1..Len(mmrCall.results) :
            LET other == mmrCall.results[i]
            IN  (other.id # picked.id /\ \A h \in 1..(j - 1) : mmrOut[h].id # other.id) =>
                    LET otherScore == MmrScore(mmrCall.lambda, other, before)
                    IN  \/ RatLT(otherScore, pickedScore)
                        \/ otherScore = pickedScore /\ MmrInputAt(picked.id) < i

\* C21: MMRReranker.rerank selects the input's rank-0 candidate first, then at
\* each step a not-yet-selected candidate maximising
\* lambda*score - (1-lambda)*(max similarity to the selected), the earliest on
\* a tie; it ends with min(topK, n) pairwise distinct candidates; scenario B
\* (lambda 0.3, topK 2) returns the top duplicate, then the distinct one.
C21_MmrGreedySelection ==
    mmrCall.called =>
        /\ Len(mmrOut) = IF mmrCall.topK = Undefined THEN Len(mmrCall.results)
                         ELSE Min(mmrCall.topK[1], Len(mmrCall.results))
        /\ Len(mmrOut) > 0 => mmrOut[1].id = mmrCall.results[1].id
        /\ \A i, j \in 1..Len(mmrOut) : i # j => mmrOut[i].id # mmrOut[j].id
        /\ \A j \in 2..Len(mmrOut) : MmrStepIsArgmax(j)
        /\ (mmrCall.results = ScenarioB /\ mmrCall.lambda = Rat(3, 10)
                /\ mmrCall.topK = Some(2)) =>
              [i \in 1..Len(mmrOut) |-> mmrOut[i].id] = <<"b1", "b4">>

\* The first maxResultsInContext candidates of the call
OfferedToContext == Slice(promptCall.searchResults, builder.maxResultsInContext)

\* The block tokens of candidate i of the offered candidates
OfferedBlockTokens(i) ==
    countTokens(formatResultAsContext(OfferedToContext[i], CallIncludesMetadata))

\* C22: contextUsed is a prefix, in the given order, of the first
\* maxResultsInContext offered candidates; it stops at the first block whose
\* tokens would push the running total over maxContextTokens, leaves that
\* block out whole and includes no later candidate; with a 3000-token budget
\* and five 800-token candidates exactly 3 are included and truncated is true.
C22_ContextUsedIsBudgetPrefix ==
    promptCall.called =>
        LET used == prompt.contextUsed
            n == Len(used)
            running == CumulativeBlockTokens(used, CallIncludesMetadata)
        IN  /\ n <= Len(OfferedToContext)
            /\ \A i \in 1..n : used[i] = OfferedToContext[i]
            /\ running <= builder.maxContextTokens
            /\ n < Len(OfferedToContext) =>
                  /\ running + OfferedBlockTokens(n + 1) > builder.maxContextTokens
                  /\ prompt.truncated
            /\ promptCall.contextString
                  = Join([i \in 1..n |-> formatResultAsContext(used[i], CallIncludesMetadata)],
                         Separator)
            /\ (promptCall.searchResults = ScenarioC /\ builder.maxContextTokens = 3000
                    /\ builder.maxResultsInContext = 10) =>
                  (n = 3 /\ prompt.truncated)

\* The loop stopped at a block over the budget although a later candidate
\* would still have fitted
C22_Witness ==
    /\ promptCall.called
    /\ Len(prompt.contextUsed) >= 1
    /\ Len(prompt.contextUsed) + 2 <= Len(OfferedToContext)
    /\ CumulativeBlockTokens(prompt.contextUsed, CallIncludesMetadata)
          + OfferedBlockTokens(Len(prompt.contextUsed) + 2) <= builder.maxContextTokens

\* text with the token at position i replaced by the tokens of inserted, as
\* they are
SpliceAt(text, i, inserted) ==
    SubSeq(text, 1, i - 1) \o inserted \o SubSeq(text, i + 1, Len(text))

\* The position of the placeholder in the template's user message
PlaceholderAt(text, placeholder) == CHOOSE i \in 1..Len(text) : text[i] = placeholder

\* The template's user message with {{CONTEXT}} and then {{QUERY}} replaced at
\* their own positions by the given texts, exactly as given
FilledTemplate(user, query, contextString) ==
    LET withContext == SpliceAt(user, PlaceholderAt(user, "{{CONTEXT}}"), contextString)
    IN  SpliceAt(withContext, PlaceholderAt(user, "{{QUERY}}"), query)

\* C23: the user prompt of buildPrompt is the template's user message with
\* its {{QUERY}} placeholder replaced by the query exactly as given and its
\* {{CONTEXT}} placeholder replaced by the rendered context exactly as
\* rendered, also when the query or a candidate's content contains
\* "{{CONTEXT}}", "{{QUERY}}" or a replacement pattern such as "$&".
C23_PlaceholdersReplacedVerbatim ==
    promptCall.called =>
        prompt.userPrompt
            = FilledTemplate(builder.template.user, promptCall.query, promptCall.contextString)

\* A call of QAEngine.ask that searched with the hybrid strategy on an
\* indexed HybridSearch and whose vector search (the embedding of the query
\* or the query of the store) failed
HybridRetrievalFailed ==
    /\ qaCall.called
    /\ qaCall.op = "QAEngine.ask"
    /\ qaCall.searchStrategy = "hybrid"
    /\ isKeywordIndexReady
    /\ qaCall.vectorOutcome # "ok"

\* C24: if a retrieval of a hybrid search fails, HybridSearch.search fails
\* with that error and returns no results, never the results of the
\* surviving retriever, and QAEngine.ask then does no reranking, prompt
\* building or call of the language model for that query.
C24_FailedRetrievalFailsAsk ==
    HybridRetrievalFailed =>
        /\ qaOut.outcome = qaCall.vectorOutcome
        /\ qaOut.searchResults = <<>>
        /\ qaOut.steps = <<"search">>
        /\ qaOut.answer = NoText
        /\ qaOut.sources = <<>>

\* The vector search failed while the keyword search, already run, had
\* results for the question
C24_Witness ==
    /\ HybridRetrievalFailed
    /\ "keyword" \in qaOut.retrieval
    /\ Len(KeywordSearchCall(documents, tfidf, qaOut.question, 2).results) > 0

\* How often the word occurs in the text, both in lower case
OccurrencesIn(word, text) == TermCount(ToLowerWord(word), ToLowerCase(text), 1)

\* C25: in the text KeywordSearch indexes for a chunk, every word of the
\* chunk's title occurs 3 more times and every word of its heading 2 more
\* times than in the content alone, for titles and headings of any number of
\* words, a single word included.
C25_TitleAndHeadingWordsRepeated ==
    \A i \in 1..Len(tfidf) :
        LET doc == documents[i]
        IN  /\ \A t \in 1..Len(doc.title) :
                  OccurrencesIn(doc.title[t], tfidf[i])
                      >= OccurrencesIn(doc.title[t], doc.content) + 3
            /\ \A h \in 1..Len(doc.heading) :
                  OccurrencesIn(doc.heading[h], tfidf[i])
                      >= OccurrencesIn(doc.heading[h], doc.content) + 2

\* The ids of a fused list, each with its fused score
ScoredIds(list) == {<<list[i].id, list[i].score>> : i \in 1..Len(list)}

\* fuseResults of the call with the two lists swapped, on a SearchFusion with
\* the two weights swapped
FusedSwapped ==
    fuseResults([k |-> config.k, vectorWeight |-> config.keywordWeight,
                 keywordWeight |-> config.vectorWeight],
                fuseCall.keywordResults, fuseCall.vectorResults, fuseCall.topK)

\* C26: fuseResults is symmetric in its two lists: with the lists swapped and
\* the weights swapped it yields the same ids with the same fused score for
\* each id, for all input lists, also when an id is repeated within one list,
\* and the output holds every id at most once.
C26_FusionSymmetric ==
    fuseCall.called =>
        /\ UniqueIds(fused)
        /\ ScoredIds(FusedSwapped) = ScoredIds(fused)

\* A step in which rerankPipeline is called and ends
PipelineCallEnds ==
    /\ ~rerankCall.called
    /\ rerankCall'.called
    /\ rerankCall'.op = "rerankPipeline"

\* C27: rerankPipeline leaves the Reranker's configured strategy unchanged:
\* after the call ends, by a return or by the throw of a stage, getStrategy()
\* returns the value it had before the call.
C27_PipelineRestoresStrategy ==
    [][PipelineCallEnds => reranker'.strategy = reranker.strategy]_vars

\* The same for the calls that return
ReturningPipelineRestoresStrategy ==
    [][(PipelineCallEnds /\ ~rerankOut'.threw) => reranker'.strategy = reranker.strategy]_vars

\* A search on a ready HybridSearch whose keyword index holds no document
SearchOnReadyEmptyIndex == IsHybridSearch /\ isKeywordIndexReady /\ documents = <<>>

\* What fuseResults makes of the vector results alone
VectorResultsAlone ==
    fuseResults(config, lastSearch.vectorAnswer.results, <<>>, lastSearch.topK)

\* C28: isReady() is monotonic and records only that indexDocuments was
\* called at least once: once true it stays true after every operation,
\* indexDocuments([]) and a clear() of the KeywordSearch included; in a ready
\* state with an empty keyword index a keyword search returns an empty list
\* and a hybrid search the vector results alone, neither failing as not
\* indexed.
C28_ReadyIsMonotonic ==
    /\ [][isKeywordIndexReady => isKeywordIndexReady']_vars
    /\ [](isKeywordIndexReady <=> indexCompleted > 0)
    /\ [](SearchOnReadyEmptyIndex =>
            /\ lastSearch.outcome # "notIndexed"
            /\ lastSearch.strategy = "keyword" =>
                  (lastSearch.outcome = "ok" /\ lastSearch.results = <<>>)
            /\ (lastSearch.strategy = "hybrid" /\ lastSearch.vectorAnswer.outcome = "ok") =>
                  (/\ lastSearch.outcome = "ok"
                   /\ lastSearch.searchMetrics.keywordResults = 0
                   /\ lastSearch.searchMetrics.vectorResults
                         = Len(lastSearch.vectorAnswer.results)
                   /\ lastSearch.results
                         = IF lastSearch.minScore = Undefined THEN VectorResultsAlone
                           ELSE FilterMinScore(VectorResultsAlone,
                                               lastSearch.minScore[1], 1)))

\* A hybrid search returned vector results from a HybridSearch that is ready
\* although its keyword index, once filled, is empty again
C28_Witness ==
    /\ SearchOnReadyEmptyIndex
    /\ lastSearch.strategy = "hybrid"
    /\ lastSearch.completedBefore = MaxIndexCalls
    /\ Len(lastSearch.results) = 2

\* A step in which a request is answered with an error status
ErrorResponse ==
    \E r \in RequestIds :
        requests[r].status = 0 /\ requests'[r].status \in {400, 500}

\* C29: over any interleaving of /api/qa requests and history clears,
\* askQuestion saves exactly one message for each request whose pipeline
\* succeeds, after the answer is produced, and none for a request rejected
\* by validation or whose pipeline throws; an error response leaves the
\* stored history unchanged, and the repository's count equals the number
\* of distinct message ids saved since the last clear.
C29_OneMessagePerAnsweredRequest ==
    /\ [](\A r \in RequestIds :
            /\ requests[r].status = 200 => requests[r].saves = 1
            /\ requests[r].status \in {400, 500} => requests[r].saves = 0
            /\ requests[r].pc \in {"new", "pipeline"} => requests[r].saves = 0
            /\ requests[r].pc = "saved" => requests[r].saves = 1)
    /\ [](RepositoryCount(repository) = Cardinality(savedSinceClear))
    /\ [](IdsOf(repository) = savedSinceClear)
    /\ [][ErrorResponse => repository' = repository]_vars

\* Two answered requests whose messages got the same id, a third rejected,
\* one message in the repository
C29_Witness ==
    /\ \E r1, r2 \in RequestIds :
          /\ r1 # r2
          /\ requests[r1].status = 200
          /\ requests[r2].status = 200
          /\ requests[r1].id = requests[r2].id
    /\ \E r \in RequestIds : requests[r].status = 500
    /\ RepositoryCount(repository) = 1

\* C30: generateEmbeddings returns exactly one embedding per input text,
\* result[i] being the embedding of texts[i], for every input list, also when
\* some but not all texts of a batch are empty or become empty after
\* cleaning; embedChunks never attaches to a chunk the embedding computed
\* for another chunk.
C30_EmbeddingsAligned ==
    (genCall.called /\ genOut.outcome = "ok") =>
        /\ genCall.op = "generateEmbeddings" =>
              /\ Len(genOut.embeddings) = Len(genCall.texts)
              /\ \A i \in 1..Len(genCall.texts) :
                    genOut.embeddings[i] = EmbeddingOf(RemoveNul(genCall.texts[i]))
        /\ genCall.op = "embedChunks" =>
              \A index \in 1..Len(genOut.chunks) :
                  genOut.chunks[index].embedding
                      = Some(EmbeddingOf(RemoveNul(genOut.chunks[index].content)))

\* The same for the lists none of whose texts is empty or becomes empty
\* after cleaning
EmbeddingsAlignedWithoutEmptyTexts ==
    (genCall.called /\ \A i \in 1..Len(genCall.texts) : RemoveNul(genCall.texts[i]) # NoText)
        => C30_EmbeddingsAligned

====
